---- MODULE Spec2Model ----
(***************************************************************************)
(* Model of the rule-based classification engine (src/rule_engine.py):     *)
(* RuleEngine.load_rules fills the rule store from a rules directory and   *)
(* RuleEngine.analyze matches a text against the store; and of the         *)
(* document extractor (src/document_extractor.py): extract_from_bytes and  *)
(* extract_structured turn an uploaded file into text and into a           *)
(* structured record.  Spec is the engine, SpecExtract the extractor.      *)
(*                                                                         *)
(* Strings are sequences of one-character strings over Alphabet, which is  *)
(* listed in code-point order.  Numbers that Python holds as floats are    *)
(* fixed-point integers: a rule weight counts ten-thousandths, a           *)
(* confidence counts hundredths.                                           *)
(***************************************************************************)
EXTENDS Integers, Sequences, FiniteSets, TLC

VARIABLES dir_exists,  \* the rules directory exists
          files,       \* files[n]: content of <rules_dir>/sdg_n.json, or "absent"
          padded,      \* padded[n]: content of <rules_dir>/SDG<nn>.json, or "absent"
          edited,      \* the directory was changed after the engine was built
          hashseed,    \* the process's string-hash seed (fixes set iteration order)
          rules,       \* self.rules: a dict, as the sequence of its items
          is_loaded,   \* self.is_loaded
          last,        \* the call whose result the caller holds, with its arguments
          returned,    \* what that call returned
          calls,       \* calls[c]: the analyze call that thread c is running, step by step
          tmp_file,    \* the temporary file of the extractor call: its state on disk
          request,     \* the extractor call whose result the caller holds
          reply        \* what that call returned, and what it did on the way

engine_vars ==
    <<dir_exists, files, padded, edited, hashseed, rules, is_loaded, last, returned, calls>>

extractor_vars == <<tmp_file, request, reply>>

vars == <<engine_vars, extractor_vars>>

(***************************************************************************)
(* Strings                                                                 *)
(***************************************************************************)
Alphabet == <<"\n", " ", "*", ".", "A", "B", "a", "b">>

Ord(c) == CHOOSE i \in 1..Len(Alphabet) : Alphabet[i] = c

RECURSIVE StrLess(_, _)
\* x < y, as Python compares two str values
StrLess(x, y) ==
    IF y = <<>> THEN FALSE
    ELSE IF x = <<>> THEN TRUE
    ELSE IF Head(x) # Head(y) THEN Ord(Head(x)) < Ord(Head(y))
    ELSE StrLess(Tail(x), Tail(y))

\* str.upper / str.lower on one ASCII letter pair
UpperCase == <<"A", "B", "C", "D", "E", "F", "G", "H", "I", "J", "K", "L", "M",
               "N", "O", "P", "Q", "R", "S", "T", "U", "V", "W", "X", "Y", "Z">>

LowerCase == <<"a", "b", "c", "d", "e", "f", "g", "h", "i", "j", "k", "l", "m",
               "n", "o", "p", "q", "r", "s", "t", "u", "v", "w", "x", "y", "z">>

Digits == {"0", "1", "2", "3", "4", "5", "6", "7", "8", "9"}

UpperSet == {UpperCase[i] : i \in DOMAIN UpperCase}

LowerSet == {LowerCase[i] : i \in DOMAIN LowerCase}

LowerChar(c) ==
    IF c \in UpperSet
    THEN LowerCase[CHOOSE i \in DOMAIN UpperCase : UpperCase[i] = c]
    ELSE c

lower(s) == [i \in 1..Len(s) |-> LowerChar(s[i])]

IsSpace(c) == c \in {" ", "\n"}

\* the regex class \w
WordChars == UpperSet \cup LowerSet \cup Digits \cup {"_"}

IsWordChar(c) == c \in WordChars

RECURSIVE Select(_, _, _, _)
\* the elements s[i], lo <= i <= hi, whose index is in keep, in order
Select(s, keep, lo, hi) ==
    IF lo > hi THEN <<>>
    ELSE IF lo = hi THEN (IF lo \in keep THEN <<s[lo]>> ELSE <<>>)
    ELSE LET mid == (lo + hi) \div 2
         IN  Select(s, keep, lo, mid) \o Select(s, keep, mid + 1, hi)

\* re.sub(r'\s+', ' ', text): of a run of white space the first character
\* stays, as a blank
CollapseSpaces(s) ==
    Select([i \in DOMAIN s |-> IF IsSpace(s[i]) THEN " " ELSE s[i]],
           {i \in DOMAIN s : ~(IsSpace(s[i]) /\ i > 1 /\ IsSpace(s[i - 1]))},
           1, Len(s))

RECURSIVE LStrip(_)
LStrip(s) == IF s # <<>> /\ IsSpace(Head(s)) THEN LStrip(Tail(s)) ELSE s

RECURSIVE RStrip(_)
RStrip(s) ==
    IF s # <<>> /\ IsSpace(s[Len(s)]) THEN RStrip(SubSeq(s, 1, Len(s) - 1)) ELSE s

strip(s) == RStrip(LStrip(s))

normalize_text(text) == strip(CollapseSpaces(lower(text)))

\* k occurs in t starting at index i
HasAt(t, i, k) ==
    /\ i + Len(k) - 1 <= Len(t)
    /\ \A j \in 1..Len(k) : t[i + j - 1] = k[j]

\* the Python expression  k in t
Contains(t, k) == \E i \in 1..(Len(t) + 1) : HasAt(t, i, k)

WordAt(t, i) == i \in 1..Len(t) /\ IsWordChar(t[i])

\* the regex assertion \b holds just before index p of t
Boundary(t, p) == WordAt(t, p - 1) # WordAt(t, p)

\* re.search(r'\b' + re.escape(k) + r'\b', t)
SearchWord(t, k) ==
    \E i \in 1..(Len(t) + 1) :
        HasAt(t, i, k) /\ Boundary(t, i) /\ Boundary(t, i + Len(k))

(***************************************************************************)
(* Regular expressions: literals, '.', and '*' after an atom               *)
(***************************************************************************)
\* re.compile raises re.error: nothing to repeat, or multiple repeat
ReError(p) == \E i \in 1..Len(p) : p[i] = "*" /\ (i = 1 \/ p[i - 1] = "*")

\* atom a matches character c under re.IGNORECASE
AtomMatches(a, c) == IF a = "." THEN c # "\n" ELSE LowerChar(a) = LowerChar(c)

RECURSIVE MatchHere(_, _)
\* p matches a prefix of t
MatchHere(p, t) ==
    IF p = <<>> THEN TRUE
    ELSE IF Len(p) >= 2 /\ p[2] = "*"
         THEN \/ MatchHere(SubSeq(p, 3, Len(p)), t)
              \/ (t # <<>> /\ AtomMatches(p[1], t[1]) /\ MatchHere(p, Tail(t)))
         ELSE t # <<>> /\ AtomMatches(p[1], t[1]) /\ MatchHere(Tail(p), Tail(t))

\* re.search(p, t, re.IGNORECASE) finds a match (p compiles)
ReSearch(p, t) == \E i \in 1..(Len(t) + 1) : MatchHere(p, SubSeq(t, i, Len(t)))

(***************************************************************************)
(* Generic helpers                                                         *)
(***************************************************************************)
Min(a, b) == IF a <= b THEN a ELSE b

Range(s) == {s[i] : i \in DOMAIN s}

RECURSIVE SortedAsc(_)
\* the elements of a set of strings, ascending
SortedAsc(S) ==
    IF S = {} THEN <<>>
    ELSE LET m == CHOOSE x \in S : \A y \in S \ {x} : StrLess(x, y)
         IN  <<m>> \o SortedAsc(S \ {m})

Reverse(s) == [i \in 1..Len(s) |-> s[Len(s) + 1 - i]]

(***************************************************************************)
(* Program constants                                                       *)
(***************************************************************************)
\* range(1, 18): the categories load_rules looks for
NumSDG == 17

SDG_LABELS ==
    << "No Poverty", "Zero Hunger", "Good Health and Well-being",
       "Quality Education", "Gender Equality", "Clean Water and Sanitation",
       "Affordable and Clean Energy", "Decent Work and Economic Growth",
       "Industry, Innovation and Infrastructure", "Reduced Inequality",
       "Sustainable Cities and Communities",
       "Responsible Consumption and Production", "Climate Action",
       "Life Below Water", "Life on Land",
       "Peace, Justice and Strong Institutions", "Partnerships for the Goals" >>

\* \d{4,9} in the identifier pattern
DoiPrefixMin == 4

DoiPrefixMax == 9

\* a page with more identifier matches than this contributes no candidate
DensityLimit == 3

\* _parse_structure: the lines searched for a title, and the length a title
\* has (strictly between)
TitleScanLines == 15

TitleFallbackLines == 5

TitleMinLen == 10

TitleMaxLen == 250

\* an abstract is cut to this length; a fallback abstract is strictly between
AbstractMaxLen == 2000

FallbackAbstractMin == 100

\* a keyword's length is strictly between these; at most MaxKeywords are kept
KeywordMinLen == 2

KeywordMaxLen == 60

MaxKeywords == 20

\* authors[:10]
MaxAuthors == 10

\* the lines searched for a year
YearScanLines == 25

\* _extract_doc keeps the lines longer than this many characters
MinDocLine == 3

\* confidence points per match, and the cap on base_confidence
PointsPerMatch == 15

ConfidenceCap == 100

\* results[:10]
TopN == 10

\* one unit of weight (1.0) in ten-thousandths; rule.get('weight', 1.0)
DefaultWeight == 10000

(***************************************************************************)
(* A dict, as the sequence of its items in insertion order                 *)
(***************************************************************************)
DictKeys(d) == {d[i].key : i \in DOMAIN d}

DictGet(d, k) == d[CHOOSE i \in DOMAIN d : d[i].key = k].value

\* d[k] = v: a new key goes last, an existing key keeps its place
DictSet(d, k, v) ==
    IF k \in DictKeys(d)
    THEN [i \in DOMAIN d |-> IF d[i].key = k THEN [key |-> k, value |-> v] ELSE d[i]]
    ELSE Append(d, [key |-> k, value |-> v])

(***************************************************************************)
(* Rule files.  A JSON object is a record that lists the keys it has in    *)
(* "keys"; the fields of absent keys are never read.                       *)
(***************************************************************************)
EmptyObject ==
    [keys |-> {}, title |-> "", keywords |-> <<>>, phrases |-> <<>>,
     patterns |-> <<>>, weight |-> 0, synonyms |-> <<>>,
     include |-> <<>>, exclude |-> <<>>]

Letters == {"A", "B", "a", "b"}

\* every two-letter word in every casing, then the four single letters
RichKeywords ==
    SortedAsc({<<x, y>> : x \in Letters, y \in Letters}) \o SortedAsc({<<x>> : x \in Letters})

RichRule ==
    [EmptyObject EXCEPT
        !.keys = {"keywords", "phrases", "patterns", "synonyms"},
        !.keywords = RichKeywords,
        !.phrases = << <<"a">>, <<"A">>, <<"b">>, <<"B">>, <<" ">> >>,
        !.patterns = << <<"a", ".", "*", "b">>, <<"*", "a">> >>,
        !.synonyms = << [key |-> <<"a", "a", "a">>, value |-> << <<"b", "."  >>, <<"A", "B">> >>] >>]

\* the content of a rule file, by fixture name
FileData(name) ==
    CASE name = "basic" ->
            [EmptyObject EXCEPT !.keys = {"keywords"}, !.keywords = << <<"a", "b">> >>]
      [] name = "rich" -> RichRule
      [] name = "rich_half" ->
            [RichRule EXCEPT !.keys = @ \cup {"weight"}, !.weight = 5000]
      [] name = "negative" ->
            [EmptyObject EXCEPT !.keys = {"keywords", "weight"},
                                !.keywords = << <<"a", "b">> >>, !.weight = -10000]
      [] name = "weighted" ->
            [EmptyObject EXCEPT
                !.keys = {"title", "keywords", "weight", "exclude"},
                !.title = "Custom Title",
                !.keywords = << <<"a", "b">>, <<"B", "b">> >>,
                !.weight = 3333,
                !.exclude = << [key |-> "TITLE_ABS", value |-> << <<"B", "b">> >>] >>]
      [] name = "include_exclude" ->
            [EmptyObject EXCEPT
                !.keys = {"include", "exclude"},
                !.include = << [key |-> "TITLE_ABS", value |-> << <<"a", "b">> >>] >>,
                !.exclude = << [key |-> "AUTHKEY", value |-> << <<"b", "b">> >>] >>]

\* files whose json.load returns an object
ValidFiles == {"basic", "rich", "rich_half", "negative", "weighted", "include_exclude"}

\* files on which open() or json.load() raises
BadFiles == {"malformed", "unreadable"}

FileContents == ValidFiles \cup BadFiles

SDGNumbers == 1..NumSDG

(***************************************************************************)
(* RuleEngine.load_rules                                                   *)
(***************************************************************************)
RECURSIVE LoadLoop(_, _, _, _)
\* the for loop over sdg_num, from sdg_num = n on; it stops where open() or
\* json.load() raises
LoadLoop(dir, n, store, loaded_count) ==
    IF n > NumSDG
    THEN [rules |-> store, loaded_count |-> loaded_count, raised |-> FALSE]
    ELSE IF dir[n] = "absent"
         THEN LoadLoop(dir, n + 1, store, loaded_count)
         ELSE IF dir[n] \in BadFiles
              THEN [rules |-> store, loaded_count |-> loaded_count, raised |-> TRUE]
              ELSE LoadLoop(dir, n + 1, DictSet(store, n, FileData(dir[n])),
                            loaded_count + 1)

\* the engine's fields and the return value after load_rules()
load_rules(exists, dir, store, loaded) ==
    IF ~exists
    THEN [rules |-> store, is_loaded |-> loaded, ret |-> FALSE]
    ELSE LET r == LoadLoop(dir, 1, store, 0)
         IN  IF r.raised
             THEN [rules |-> r.rules, is_loaded |-> FALSE, ret |-> FALSE]
             ELSE IF r.loaded_count > 0
                  THEN [rules |-> r.rules, is_loaded |-> TRUE, ret |-> TRUE]
                  ELSE [rules |-> r.rules, is_loaded |-> loaded, ret |-> FALSE]

(***************************************************************************)
(* The matchers of RuleEngine                                              *)
(***************************************************************************)
match_keywords(text, keywords) ==
    {keywords[i] : i \in {j \in DOMAIN keywords : SearchWord(text, lower(keywords[j]))}}

match_phrases(text, phrases) ==
    {phrases[i] : i \in {j \in DOMAIN phrases : Contains(text, lower(phrases[j]))}}

\* a pattern that does not compile is logged and skipped
match_patterns(text, patterns) ==
    {patterns[i] : i \in {j \in DOMAIN patterns :
                            ~ReError(patterns[j]) /\ ReSearch(patterns[j], text)}}

match_with_synonyms(text, keyword, synonyms) ==
    \/ Contains(text, lower(keyword))
    \/ \E i \in DOMAIN synonyms : Contains(text, lower(synonyms[i]))

(***************************************************************************)
(* RuleEngine.analyze                                                      *)
(***************************************************************************)
\* variant of ListOfSet that keeps at most 20 elements
ListOfSet_Capped(S, seed) ==
    LET l == IF seed = 0 THEN SortedAsc(S) ELSE Reverse(SortedAsc(S))
    IN  SubSeq(l, 1, Min(20, Len(l)))

\* list(s) for a set of str: the order follows the hash seed of the process
ListOfSet(S, seed) == IF seed = 0 THEN SortedAsc(S) ELSE Reverse(SortedAsc(S))

\* round(x, 2) of x given in ten-thousandths, as hundredths; ties go to even
Round2(x) ==
    LET q == x \div 100
        r == x % 100
    IN  IF r < 50 THEN q
        ELSE IF r > 50 THEN q + 1
        ELSE IF q % 2 = 0 THEN q ELSE q + 1

\* variant of base_confidence scoring 10 points per match on a base of 20
base_confidence_Linear(match_count, weight) ==
    Min(ConfidenceCap * DefaultWeight, (match_count * 10 + 20) * weight)

\* variant of base_confidence without the cap
base_confidence_Uncapped(match_count, weight) ==
    match_count * PointsPerMatch * weight

\* min(100, match_count * 15 * weight), in ten-thousandths
base_confidence(match_count, weight) ==
    Min(ConfidenceCap * DefaultWeight, match_count * PointsPerMatch * weight)

\* variant of MeetsThreshold that is off by one
MeetsThreshold_OffByOne(match_count, min_matches) == match_count + 1 >= min_matches

\* the threshold test that admits a category to the results
MeetsThreshold(match_count, min_matches) == match_count >= min_matches

\* the three match sets of one rule, after the synonym pass
MatchSets(rule, text, use_synonyms) ==
    LET kw  == IF "keywords" \in rule.keys
               THEN match_keywords(text, rule.keywords) ELSE {}
        ph  == IF "phrases" \in rule.keys
               THEN match_phrases(text, rule.phrases) ELSE {}
        pt  == IF "patterns" \in rule.keys
               THEN match_patterns(text, rule.patterns) ELSE {}
        syn == IF use_synonyms /\ "synonyms" \in rule.keys
               THEN {rule.synonyms[i].key : i \in
                        {j \in DOMAIN rule.synonyms :
                            match_with_synonyms(text, rule.synonyms[j].key,
                                                rule.synonyms[j].value)}}
               ELSE {}
    IN  [keywords |-> kw \cup syn, phrases |-> ph, patterns |-> pt]

\* all_matches = matched_keywords | matched_phrases | matched_patterns
AllMatches(m) == m.keywords \cup m.phrases \cup m.patterns

\* the dict appended to results for one category
\* a mutant: the label is always the list's
Label_FromListOnly(sdg_num, rule) == SDG_LABELS[sdg_num]

\* rule.get('title', SDG_LABELS[sdg_num-1])
Label(sdg_num, rule) ==
    IF "title" \in rule.keys THEN rule.title ELSE SDG_LABELS[sdg_num]

ResultEntry(sdg_num, rule, m, seed) ==
    LET all_matches == AllMatches(m)
        match_count == Cardinality(all_matches)
        weight      == IF "weight" \in rule.keys THEN rule.weight ELSE DefaultWeight
    IN  [sdg |-> [num |-> sdg_num,
                  label |-> Label(sdg_num, rule)],
         matched_rules |-> ListOfSet(all_matches, seed),
         match_count |-> match_count,
         confidence |-> Round2(base_confidence(match_count, weight)),
         source |-> "rule_based",
         details |-> [keywords |-> ListOfSet(m.keywords, seed),
                      phrases |-> ListOfSet(m.phrases, seed),
                      patterns |-> ListOfSet(m.patterns, seed)]]

RECURSIVE CollectResults(_, _, _, _, _, _)
\* the loop over self.rules.items(), from item i on
CollectResults(store, i, text, use_synonyms, min_matches, seed) ==
    IF i > Len(store) THEN <<>>
    ELSE LET m    == MatchSets(store[i].value, text, use_synonyms)
             rest == CollectResults(store, i + 1, text, use_synonyms, min_matches, seed)
         IN  IF MeetsThreshold(Cardinality(AllMatches(m)), min_matches)
             THEN <<ResultEntry(store[i].key, store[i].value, m, seed)>> \o rest
             ELSE rest

\* e goes before x in the sorted list: list.sort(reverse=True) is stable, so
\* an entry passes only entries of strictly smaller confidence
GoesBefore(e, x) == e.confidence > x.confidence

RECURSIVE InsertSorted(_, _)
\* sorted with e put behind every entry it does not go before
InsertSorted(sorted, e) ==
    IF sorted = <<>> THEN <<e>>
    ELSE IF GoesBefore(e, Head(sorted))
         THEN <<e>> \o sorted
         ELSE <<Head(sorted)>> \o InsertSorted(Tail(sorted), e)

RECURSIVE SortByConfidence(_, _)
\* results.sort(key=lambda x: x["confidence"], reverse=True); acc is sorted
SortByConfidence(results, acc) ==
    IF results = <<>> THEN acc
    ELSE SortByConfidence(Tail(results), InsertSorted(acc, Head(results)))

\* results[:10]
Truncate(results) == SubSeq(results, 1, Min(TopN, Len(results)))

\* the list analyze(text, use_synonyms, min_matches) returns
analyze(store, loaded, seed, text, use_synonyms, min_matches) ==
    IF ~loaded THEN <<>>
    ELSE Truncate(SortByConfidence(
            CollectResults(store, 1, normalize_text(text), use_synonyms,
                           min_matches, seed), <<>>))

(***************************************************************************)
(* RuleEngine.analyze, one step of one thread at a time.  The text, the    *)
(* arguments, the normalized text, the list results and the position in    *)
(* self.rules.items() are local to the call.                               *)
(***************************************************************************)
\* a mutant: every call appends to the list of the first thread
ResultsOf_Shared(cs, c) == cs[1].results

\* results = []: the list the call of thread c appends to
ResultsOf(cs, c) == cs[c].results

\* lines 232-239: the test of is_loaded, the normalization, the empty list
Begun(loaded, text, use_synonyms, min_matches) ==
    [pc |-> IF loaded THEN "loop" ELSE "done",
     text |-> text, use_synonyms |-> use_synonyms, min_matches |-> min_matches,
     normalized_text |-> IF loaded THEN normalize_text(text) ELSE <<>>,
     i |-> 1, results |-> <<>>, result |-> <<>>]

\* lines 242-295: the loop body for one item of self.rules.items()
LoopBody(results, item, call, m, seed) ==
    IF MeetsThreshold(Cardinality(AllMatches(m)), call.min_matches)
    THEN Append(results, ResultEntry(item.key, item.value, m, seed))
    ELSE results

\* lines 297-300: the sort and the cut
SortedAndCut(results) == Truncate(SortByConfidence(results, <<>>))

(***************************************************************************)
(* Inputs                                                                  *)
(***************************************************************************)
\* normalizes to "aa ab ba bb"
TextWords == <<"A", "a", " ", "a", "b", "\n", "b", "a", " ", " ", "B", "b">>

\* normalizes to "ab"
TextOneWord == <<" ", "A", "b", "\n">>

\* matches no pattern of any rule file
TextNoMatch == <<".">>

Texts == {TextWords, TextOneWord, TextNoMatch}

\* min_matches is drawn from 0..MaxMinMatches
MaxMinMatches == 2

\* two hash seeds, giving opposite iteration orders
HashSeeds == {0, 1}

\* the directory holds sdg_n.json for every n from `first` on
DirFrom(first, name) == [n \in SDGNumbers |-> IF n >= first THEN name ELSE "absent"]

\* directories the engine may be started on: all 17 files, the last 10, none
InitialDirs == {DirFrom(first, "basic") : first \in {1, NumSDG - TopN + 1, NumSDG + 1}}

\* a directory without a file of a naming convention
NoFiles == [n \in SDGNumbers |-> "absent"]

\* the threads that serve requests
Callers == {1, 2}

\* a thread that runs no analyze call
NotCalling ==
    [pc |-> "idle", text |-> <<>>, use_synonyms |-> FALSE, min_matches |-> 0,
     normalized_text |-> <<>>, i |-> 1, results |-> <<>>, result |-> <<>>]

NoCalls == [c \in Callers |-> NotCalling]

NoCall == [name |-> "none", text |-> <<>>, use_synonyms |-> FALSE, min_matches |-> 0]

NoReturn == [ok |-> FALSE, results |-> <<>>]

NoRequest == [name |-> "none"]

NoReply == [name |-> "none"]

\* no extractor call was made
ExtractorAtRest == tmp_file = "none" /\ request = NoRequest /\ reply = NoReply

(***************************************************************************)
(* The state machine                                                       *)
(***************************************************************************)
\* RuleEngine.__init__, on a rules directory in some initial condition
Init ==
    /\ dir_exists \in BOOLEAN
    /\ files \in (IF dir_exists THEN InitialDirs ELSE {DirFrom(NumSDG + 1, "basic")})
    /\ padded = NoFiles
    /\ calls = NoCalls
    /\ edited = FALSE
    /\ hashseed \in HashSeeds
    /\ rules = <<>>
    /\ is_loaded = FALSE
    /\ last = NoCall
    /\ returned = NoReturn
    /\ ExtractorAtRest

\* no call is in progress and no result is pending at the caller
Idle == last.name = "none"

\* environment: a rule file is written (created or replaced)
WriteFile(n, name) ==
    /\ Idle
    /\ dir_exists
    /\ ~edited
    /\ files[n] # name
    /\ files' = [files EXCEPT ![n] = name]
    /\ edited' = TRUE
    /\ UNCHANGED <<dir_exists, padded, hashseed, rules, is_loaded, last, returned>>
    /\ UNCHANGED <<calls, extractor_vars>>

\* environment: a rule file is deleted
RemoveFile(n) ==
    /\ Idle
    /\ dir_exists
    /\ ~edited
    /\ files[n] # "absent"
    /\ files' = [files EXCEPT ![n] = "absent"]
    /\ edited' = TRUE
    /\ UNCHANGED <<dir_exists, padded, hashseed, rules, is_loaded, last, returned>>
    /\ UNCHANGED <<calls, extractor_vars>>

\* a call of engine.load_rules()
LoadRules ==
    LET r == load_rules(dir_exists, files, rules, is_loaded)
    IN  /\ Idle
        /\ rules' = r.rules
        /\ is_loaded' = r.is_loaded
        /\ last' = [NoCall EXCEPT !.name = "load_rules"]
        /\ returned' = [ok |-> r.ret, results |-> <<>>]
        /\ UNCHANGED <<dir_exists, files, padded, edited, hashseed>>
        /\ UNCHANGED <<calls, extractor_vars>>

\* a call of engine.analyze(text, use_synonyms, min_matches)
Analyze(text, use_synonyms, min_matches) ==
    /\ Idle
    /\ last' = [name |-> "analyze", text |-> text,
                use_synonyms |-> use_synonyms, min_matches |-> min_matches]
    /\ returned' = [ok |-> TRUE,
                    results |-> analyze(rules, is_loaded, hashseed, text,
                                        use_synonyms, min_matches)]
    /\ UNCHANGED <<dir_exists, files, padded, edited, hashseed, rules, is_loaded>>
    /\ UNCHANGED <<calls, extractor_vars>>

\* the caller has taken the result; every call is synchronous, so the next
\* call starts only now
Return ==
    /\ ~Idle
    /\ last' = NoCall
    /\ returned' = NoReturn
    /\ UNCHANGED <<dir_exists, files, padded, edited, hashseed, rules, is_loaded>>
    /\ UNCHANGED <<calls, extractor_vars>>

Next ==
    \/ \E n \in SDGNumbers, name \in FileContents : WriteFile(n, name)
    \/ \E n \in SDGNumbers : RemoveFile(n)
    \/ LoadRules
    \/ \E text \in Texts, use_synonyms \in BOOLEAN, min_matches \in 0..MaxMinMatches :
           Analyze(text, use_synonyms, min_matches)
    \/ Return

Spec == Init /\ [][Next]_vars

(***************************************************************************)
(* The loader alone, on a directory that changes without limit between     *)
(* the calls.  Files come and go under two names, sdg_<n>.json and         *)
(* SDG<nn>.json (the name the converter of src/convert_rules.py looks for  *)
(* first), for two of the categories; the directory itself may be removed. *)
(***************************************************************************)
LoadCategories == {7, NumSDG}

LoadContents == {"basic", "malformed"}

InitLoad ==
    /\ dir_exists \in BOOLEAN
    /\ files = NoFiles
    /\ padded = NoFiles
    /\ calls = NoCalls
    /\ edited = FALSE
    /\ hashseed = 0
    /\ rules = <<>>
    /\ is_loaded = FALSE
    /\ last = NoCall
    /\ returned = NoReturn
    /\ ExtractorAtRest

\* environment: sdg_<n>.json is created or replaced
ReplaceFile(n, name) ==
    /\ Idle
    /\ dir_exists
    /\ files[n] # name
    /\ files' = [files EXCEPT ![n] = name]
    /\ edited' = TRUE
    /\ UNCHANGED <<dir_exists, padded, hashseed, rules, is_loaded, last, returned>>
    /\ UNCHANGED <<calls, extractor_vars>>

\* environment: sdg_<n>.json is deleted
DeleteFile(n) ==
    /\ Idle
    /\ dir_exists
    /\ files[n] # "absent"
    /\ files' = [files EXCEPT ![n] = "absent"]
    /\ edited' = TRUE
    /\ UNCHANGED <<dir_exists, padded, hashseed, rules, is_loaded, last, returned>>
    /\ UNCHANGED <<calls, extractor_vars>>

\* environment: SDG<nn>.json is created or replaced
ReplacePadded(n, name) ==
    /\ Idle
    /\ dir_exists
    /\ padded[n] # name
    /\ padded' = [padded EXCEPT ![n] = name]
    /\ edited' = TRUE
    /\ UNCHANGED <<dir_exists, files, hashseed, rules, is_loaded, last, returned>>
    /\ UNCHANGED <<calls, extractor_vars>>

\* environment: SDG<nn>.json is deleted
DeletePadded(n) ==
    /\ Idle
    /\ dir_exists
    /\ padded[n] # "absent"
    /\ padded' = [padded EXCEPT ![n] = "absent"]
    /\ edited' = TRUE
    /\ UNCHANGED <<dir_exists, files, hashseed, rules, is_loaded, last, returned>>
    /\ UNCHANGED <<calls, extractor_vars>>

\* environment: the rules directory is removed with its files
RemoveDirectory ==
    /\ Idle
    /\ dir_exists
    /\ dir_exists' = FALSE
    /\ files' = NoFiles
    /\ padded' = NoFiles
    /\ edited' = TRUE
    /\ UNCHANGED <<hashseed, rules, is_loaded, last, returned>>
    /\ UNCHANGED <<calls, extractor_vars>>

\* environment: the rules directory is created, empty
CreateDirectory ==
    /\ Idle
    /\ ~dir_exists
    /\ dir_exists' = TRUE
    /\ edited' = TRUE
    /\ UNCHANGED <<files, padded, hashseed, rules, is_loaded, last, returned>>
    /\ UNCHANGED <<calls, extractor_vars>>

NextLoad ==
    \/ \E n \in LoadCategories, name \in LoadContents : ReplaceFile(n, name)
    \/ \E n \in LoadCategories : DeleteFile(n)
    \/ \E n \in LoadCategories : ReplacePadded(n, "basic")
    \/ \E n \in LoadCategories : DeletePadded(n)
    \/ RemoveDirectory
    \/ CreateDirectory
    \/ LoadRules
    \/ Return

SpecLoad == InitLoad /\ [][NextLoad]_vars

(***************************************************************************)
(* Two threads call analyze on one engine.  The rules are loaded at        *)
(* process start, before a request is served: load_rules runs only while   *)
(* no thread is inside analyze.                                            *)
(***************************************************************************)
\* one rule file, or two different ones
ConcurrentDirs ==
    {DirFrom(NumSDG, "rich"), [DirFrom(NumSDG - 1, "rich_half") EXCEPT ![NumSDG] = "weighted"]}

ConcurrentTexts == {TextWords, TextOneWord}

InitConcurrent ==
    /\ dir_exists \in BOOLEAN
    /\ files \in (IF dir_exists THEN ConcurrentDirs ELSE {NoFiles})
    /\ padded = NoFiles
    /\ calls = NoCalls
    /\ edited = FALSE
    /\ hashseed \in HashSeeds
    /\ rules = <<>>
    /\ is_loaded = FALSE
    /\ last = NoCall
    /\ returned = NoReturn
    /\ ExtractorAtRest

NoneCalling == \A c \in Callers : calls[c].pc = "idle"

\* load_rules at process start
LoadAtStart == NoneCalling /\ LoadRules

\* thread c enters analyze(text, use_synonyms, min_matches)
AnalyzeBegin(c, text, use_synonyms, min_matches) ==
    /\ calls[c].pc = "idle"
    /\ calls' = [calls EXCEPT ![c] = Begun(is_loaded, text, use_synonyms, min_matches)]
    /\ UNCHANGED <<dir_exists, files, padded, edited, hashseed, rules, is_loaded, last, returned>>
    /\ UNCHANGED extractor_vars

\* thread c runs the loop body for the next item of the store
AnalyzeIterate(c) ==
    /\ calls[c].pc = "loop"
    /\ calls[c].i <= Len(rules)
    /\ calls' = [calls EXCEPT
                    ![c].results =
                        LoopBody(ResultsOf(calls, c), rules[calls[c].i], calls[c],
                                 MatchSets(rules[calls[c].i].value, calls[c].normalized_text,
                                           calls[c].use_synonyms),
                                 hashseed),
                    ![c].i = @ + 1]
    /\ UNCHANGED <<dir_exists, files, padded, edited, hashseed, rules, is_loaded, last, returned>>
    /\ UNCHANGED extractor_vars

\* thread c leaves the loop, sorts its list and returns the first ten
AnalyzeFinish(c) ==
    /\ calls[c].pc = "loop"
    /\ calls[c].i > Len(rules)
    /\ calls' = [calls EXCEPT ![c].pc = "done",
                              ![c].result = SortedAndCut(calls[c].results)]
    /\ UNCHANGED <<dir_exists, files, padded, edited, hashseed, rules, is_loaded, last, returned>>
    /\ UNCHANGED extractor_vars

\* the caller of thread c has taken the result
AnalyzeTaken(c) ==
    /\ calls[c].pc = "done"
    /\ calls' = [calls EXCEPT ![c] = NotCalling]
    /\ UNCHANGED <<dir_exists, files, padded, edited, hashseed, rules, is_loaded, last, returned>>
    /\ UNCHANGED extractor_vars

\* a step of an analyze call
AnalyzeStep ==
    \/ \E c \in Callers, text \in ConcurrentTexts, use_synonyms \in BOOLEAN,
          min_matches \in 1..MaxMinMatches :
           AnalyzeBegin(c, text, use_synonyms, min_matches)
    \/ \E c \in Callers : AnalyzeIterate(c)
    \/ \E c \in Callers : AnalyzeFinish(c)

NextConcurrent ==
    \/ LoadAtStart
    \/ Return
    \/ AnalyzeStep
    \/ \E c \in Callers : AnalyzeTaken(c)

SpecConcurrent == InitConcurrent /\ [][NextConcurrent]_vars

(***************************************************************************)
(* Vocabulary of the properties                                            *)
(***************************************************************************)
\* the caller holds the list an analyze call returned
Analyzed == last.name = "analyze"

\* the caller holds the value a load_rules call returned
LoadReturned == last.name = "load_rules"

Results == returned.results

\* the rule the store holds for the category of a reported entry
RuleOfEntry(e) == DictGet(rules, e.sdg.num)

\* the weight of a rule in ten-thousandths, 1.0 when the file gives none
WeightOfRule(rule) == IF "weight" \in rule.keys THEN rule.weight ELSE 10000

\* the union of the word-boundary matches of every field of an include or
\* exclude section
SectionMatches(section, text) ==
    UNION {match_keywords(text, section[i].value) : i \in DOMAIN section}

\* C1: analyze returns no entry whose match_count is below min_matches.
C1_ThresholdRespected ==
    Analyzed =>
        \A i \in DOMAIN Results :
            /\ Results[i].match_count >= last.min_matches
            /\ Len(Results[i].matched_rules) >= last.min_matches

\* a call that reported some categories and dropped others for having fewer
\* than 2 matches (fewer than 10 are reported, so none was cut by the cap)
C1_Witness ==
    /\ Analyzed /\ is_loaded /\ last.min_matches = 2
    /\ Results # <<>>
    /\ Len(Results) < 10
    /\ Len(Results) < Len(rules)

C4_ConfidenceInRange ==
    Analyzed =>
        \A i \in DOMAIN Results :
            Results[i].confidence >= 0 /\ Results[i].confidence <= 100 * 100

\* C5: the reported match set is the include match set minus the exclude
\* match set: no reported pattern is an exclude pattern that occurs in the
\* text, and a rule with an include section reports its include matches less
\* its exclude matches.
C5_IncludeMinusExclude ==
    Analyzed =>
        \A i \in DOMAIN Results :
            LET e    == Results[i]
                rule == RuleOfEntry(e)
                text == normalize_text(last.text)
                excl == IF "exclude" \in rule.keys
                        THEN SectionMatches(rule.exclude, text) ELSE {}
            IN  /\ Range(e.matched_rules) \cap excl = {}
                /\ "include" \in rule.keys =>
                      /\ Range(e.matched_rules) = SectionMatches(rule.include, text) \ excl
                      /\ e.match_count = Cardinality(SectionMatches(rule.include, text) \ excl)

\* entry a is ranked before entry b: higher confidence, or equal confidence
\* and lower category number
RankedBefore(a, b) ==
    \/ a.confidence > b.confidence
    \/ a.confidence = b.confidence /\ a.sdg.num < b.sdg.num

\* C6: the returned list is in non-increasing confidence, ties in ascending
\* category number, at most 10 long, and holds the first 10 of that ranking
\* of the categories that meet the threshold.
C6_RankedTopTen ==
    (Analyzed /\ is_loaded) =>
        LET all == CollectResults(rules, 1, normalize_text(last.text),
                                  last.use_synonyms, last.min_matches, hashseed)
        IN  /\ Len(Results) <= 10
            /\ \A i, j \in DOMAIN Results : i < j => RankedBefore(Results[i], Results[j])
            /\ Len(Results) = (IF Len(all) > 10 THEN 10 ELSE Len(all))
            /\ \A k \in DOMAIN all :
                  \/ \E i \in DOMAIN Results : Results[i] = all[k]
                  \/ \A i \in DOMAIN Results : RankedBefore(Results[i], all[k])

NoMatchOutcome ==
    [ok |-> TRUE,
     results |-> analyze(DictSet(<<>>, 1, FileData("basic")), TRUE, hashseed,
                         TextNoMatch, TRUE, 1)]

\* C8: with zero loaded categories the outcome of analyze differs from the
\* outcome of a loaded store on a text that matches no category.
C8_EmptyStoreDistinguishable ==
    (Analyzed /\ rules = <<>>) => returned # NoMatchOutcome

\* categories whose file cannot be opened or parsed / can be
BadCategories == {n \in SDGNumbers : files[n] \in BadFiles}

ValidCategories == {n \in SDGNumbers : files[n] \in ValidFiles}

\* C9: with one unreadable or malformed file and at least one valid file,
\* load_rules returns True, is_loaded is true and every category with a
\* valid file is in the store.
C9_BadFileSkipped ==
    (LoadReturned /\ Cardinality(BadCategories) = 1 /\ ValidCategories # {}) =>
        /\ returned.ok
        /\ is_loaded
        /\ ValidCategories \subseteq DictKeys(rules)
        /\ BadCategories \cap DictKeys(rules) = {}

\* C10: a missing file leaves its category out of the store, and load_rules
\* returns True exactly when the call loaded at least one category.
C10_ReturnsTrueIffLoaded ==
    (LoadReturned /\ dir_exists) =>
        /\ \A n \in SDGNumbers : files[n] = "absent" => n \notin DictKeys(rules)
        /\ returned.ok <=> (LoadLoop(files, 1, <<>>, 0).loaded_count > 0)

(***************************************************************************)
(* The document extractor (src/document_extractor.py)                      *)
(*                                                                         *)
(* A text is a sequence of characters, written Chars("...").  An uploaded  *)
(* file is given by its bytes and by what each library reads out of those  *)
(* bytes.  A reading that can fail is a record that says whether it        *)
(* raises.                                                                 *)
(***************************************************************************)
Chars(s) == [i \in 1..Len(s) |-> SubSeq(s, i, i)]

\* the byte 0xFF, which is no valid UTF-8, and the character it is in latin-1
ByteFF == "0xFF"

CharFF == "U+00FF"

\* the ordered list lst holds x
InList(x, lst) == \E i \in DOMAIN lst : lst[i] = x

\* p.rfind(c), counting from 1; 0 when c does not occur
RFind(p, c) ==
    IF \E i \in DOMAIN p : p[i] = c
    THEN CHOOSE i \in DOMAIN p : p[i] = c /\ \A j \in (i + 1)..Len(p) : p[j] # c
    ELSE 0

\* os.path.splitext(p): a leading run of dots of the last component is no
\* extension
splitext(p) ==
    LET sepIndex == RFind(p, "/")
        dotIndex == RFind(p, ".")
    IN  IF /\ dotIndex > sepIndex
           /\ \E k \in (sepIndex + 1)..(dotIndex - 1) : p[k] # "."
        THEN <<SubSeq(p, 1, dotIndex - 1), SubSeq(p, dotIndex, Len(p))>>
        ELSE <<p, <<>>>>

MinOf(S) == CHOOSE x \in S : \A y \in S : x <= y

MaxOf(S) == CHOOSE x \in S : \A y \in S : y <= x

RECURSIVE SplitFrom(_, _, _)
SplitFrom(s, c, from) ==
    LET at == {i \in from..Len(s) : s[i] = c}
    IN  IF at = {} THEN <<SubSeq(s, from, Len(s))>>
        ELSE <<SubSeq(s, from, MinOf(at) - 1)>> \o SplitFrom(s, c, MinOf(at) + 1)

\* s.split(c) for a one-character separator
Split(s, c) == SplitFrom(s, c, 1)

RECURSIVE Join(_, _)
\* sep.join(parts)
Join(sep, parts) ==
    IF parts = <<>> THEN <<>>
    ELSE IF Len(parts) = 1 THEN parts[1]
    ELSE parts[1] \o sep \o Join(sep, Tail(parts))

\* [x for x in lst if x is in the set keep], order kept
Filter(lst, keep) == Select(lst, {i \in DOMAIN lst : lst[i] \in keep}, 1, Len(lst))

(***************************************************************************)
(* Extractors of the single formats                                        *)
(***************************************************************************)
\* bytes.decode(encoding): the text, or a UnicodeDecodeError
DecodeRaises(bytes, encoding) == encoding = "utf-8" /\ InList(ByteFF, bytes)

Decode(bytes, encoding) == [i \in DOMAIN bytes |-> IF bytes[i] = ByteFF THEN CharFF ELSE bytes[i]]

\* bytes.decode('utf-8', errors='ignore')
DecodeIgnore(bytes) == Filter(bytes, Range(bytes) \ {ByteFF})

Encodings == <<"utf-8", "latin-1", "windows-1252", "cp1252">>

RECURSIVE TryEncodings(_, _)
\* the loop of _extract_text, from the i-th encoding on
TryEncodings(bytes, i) ==
    IF i > Len(Encodings) THEN DecodeIgnore(bytes)
    ELSE IF DecodeRaises(bytes, Encodings[i]) THEN TryEncodings(bytes, i + 1)
    ELSE IF strip(Decode(bytes, Encodings[i])) # <<>> THEN Decode(bytes, Encodings[i])
    ELSE TryEncodings(bytes, i + 1)

_extract_text(file) == TryEncodings(file.bytes, 1)

\* the first encoding never raises under errors='ignore'
_extract_doc(file) ==
    LET text  == DecodeIgnore(file.bytes)
        lines == Split(text, "\n")
        kept  == {l \in Range(lines) : Len(strip(l)) > MinDocLine}
    IN  Join(<<"\n">>, [i \in DOMAIN Filter(lines, kept) |-> strip(Filter(lines, kept)[i])])

\* python-docx: paragraphs, then table cells, the blank ones dropped
_extract_docx(file) ==
    IF ~file.docx.valid THEN <<>>
    ELSE LET parts == file.docx.paragraphs \o file.docx.cells
         IN  Join(<<"\n">>, Filter(parts, {t \in Range(parts) : strip(t) # <<>>}))

(***************************************************************************)
(* _extract_pdf_multi_method: three libraries in turn                      *)
(***************************************************************************)
RECURSIVE ReadPages(_, _, _)
\* one library's page loop from page i on: every non-empty page text is
\* appended to text; the loop ends at the first page whose reading raises
ReadPages(pages, i, text) ==
    IF i > Len(pages) THEN [text |-> text, raised |-> FALSE]
    ELSE IF pages[i].raises THEN [text |-> text, raised |-> TRUE]
    ELSE ReadPages(pages, i + 1,
                   IF pages[i].text # <<>>
                   THEN text \o pages[i].text \o <<"\n", "\n">>
                   ELSE text)

\* one try block: open the file with the library, read the pages
Strategy(name, view, text) ==
    LET r == IF view.opens THEN ReadPages(view.pages, 1, text)
             ELSE [text |-> text, raised |-> TRUE]
    IN  [strategy |-> name, text |-> r.text, raised |-> r.raised]

\* a mutant: no strategy ever returns early
Wins_Never(run) == FALSE

\* the strategy ends its try block by returning
Wins(run) == ~run.raised /\ strip(run.text) # <<>>

\* returns the text; runs lists the strategies that were invoked, with the
\* text accumulated when each ended
_extract_pdf_multi_method(pdf) ==
    LET s1 == Strategy("PyMuPDF", pdf.fitz, <<>>)
        s2 == Strategy("pdfplumber", pdf.pdfplumber, s1.text)
        s3 == Strategy("PyPDF2", pdf.PyPDF2, s2.text)
    IN  IF Wins(s1) THEN [text |-> strip(s1.text), runs |-> <<s1>>]
        ELSE IF Wins(s2) THEN [text |-> strip(s2.text), runs |-> <<s1, s2>>]
        ELSE [text |-> strip(s3.text), runs |-> <<s1, s2, s3>>]

(***************************************************************************)
(* Identifier (DOI) detection                                              *)
(*   \b(10\.\d{4,9}/[-._;()/:A-Z0-9]+)\b   with re.IGNORECASE              *)
(***************************************************************************)
DoiChars == UpperSet \cup LowerSet \cup Digits \cup {"-", ".", "_", ";", "(", ")", "/", ":"}

RECURSIVE RunLength(_, _, _)
\* how many characters of t from index i on lie in the class
RunLength(t, i, class) ==
    IF i <= Len(t) /\ t[i] \in class THEN 1 + RunLength(t, i + 1, class) ELSE 0

\* the index just after the match of the pattern that starts at index i, or
\* 0 when no match starts there.  The digit run must be followed by '/', so
\* it is taken whole; the suffix is the longest run that ends at a \b.
DoiMatchEnd(t, i) ==
    LET n    == RunLength(t, i + 3, Digits)
        from == i + 3 + n + 1
        m    == RunLength(t, from, DoiChars)
        ends == {e \in 1..m : Boundary(t, from + e)}
    IN  IF /\ HasAt(t, i, <<"1", "0", ".">>)
           /\ Boundary(t, i)
           /\ n >= DoiPrefixMin /\ n <= DoiPrefixMax
           /\ HasAt(t, i + 3 + n, <<"/">>)
           /\ ends # {}
        THEN from + MaxOf(ends)
        ELSE 0

RECURSIVE FindDoiFrom(_, _, _)
\* pattern.findall(t) from index i on: leftmost matches, not overlapping;
\* end[k] is the index just after the match that starts at index k, or 0
FindDoiFrom(t, end, i) ==
    LET starts == {k \in i..Len(t) : end[k] # 0}
        first  == MinOf(starts)
    IN  IF starts = {} THEN <<>>
        ELSE <<SubSeq(t, first, end[first] - 1)>> \o FindDoiFrom(t, end, end[first])

_find_doi_in_text(text) ==
    FindDoiFrom(text, [k \in DOMAIN text |-> DoiMatchEnd(text, k)], 1)

RECURSIVE RStripDots(_)
\* m.rstrip('.')
RStripDots(m) ==
    IF m # <<>> /\ m[Len(m)] = "." THEN RStripDots(SubSeq(m, 1, Len(m) - 1)) ELSE m

\* an Optional[str] is a sequence of at most one text: <<>> is None
None == <<>>

\* the first of two values that is not empty
OrElse(m, other) == IF m # <<>> THEN m ELSE other

Take(s, n) == SubSeq(s, 1, Min(n, Len(s)))

_extract_doi_from_text(text) ==
    LET matches == _find_doi_in_text(text)
    IN  IF matches # <<>> THEN <<RStripDots(matches[1])>> ELSE None

RECURSIVE MetadataDoi(_, _)
\* step 1 of _extract_doi_from_pdf: the metadata values in dict order, from
\* the i-th on
MetadataDoi(meta, i) ==
    IF i > Len(meta) THEN None
    ELSE OrElse(IF meta[i] # <<>> THEN Take(_find_doi_in_text(meta[i]), 1) ELSE <<>>,
                MetadataDoi(meta, i + 1))

\* a mutant: the density filter never applies
TooDense_Never(clean_matches) == FALSE

\* the density filter: the page is taken for a reference list
TooDense(clean_matches) == Len(clean_matches) > DensityLimit

\* clean_matches = [m.rstrip('.') for m in matches]
CleanMatches(matches) == [k \in DOMAIN matches |-> RStripDots(matches[k])]

\* what a page with these matches adds to the candidates
PageCandidates(clean_matches, page_num) ==
    IF TooDense(clean_matches) THEN <<>>
    ELSE [k \in DOMAIN clean_matches |-> [doi |-> clean_matches[k], page |-> page_num]]

RECURSIVE ScanPages(_, _, _)
\* step 2: the candidates of the pages from page i on, behind those found
\* so far; a page whose reading raises ends the whole search
ScanPages(pages, i, candidates) ==
    IF i > Len(pages) THEN [candidates |-> candidates, raised |-> FALSE, read |-> i - 1]
    ELSE IF pages[i].raises THEN [candidates |-> candidates, raised |-> TRUE, read |-> i - 1]
    ELSE ScanPages(pages, i + 1,
                   candidates \o PageCandidates(CleanMatches(_find_doi_in_text(pages[i].text)),
                                                i - 1))

\* step 3: the first candidate in page order, unless the scan raised
FirstCandidate(scan) ==
    [doi        |-> IF ~scan.raised /\ scan.candidates # <<>>
                    THEN <<scan.candidates[1].doi>> ELSE None,
     pages_read |-> scan.read]

\* the identifier of the metadata if there is one, else that of the pages
MetadataFirst(in_meta, from_pages) ==
    IF in_meta # None THEN [doi |-> in_meta, pages_read |-> 0] ELSE from_pages

\* returns the identifier or None; pages_read counts the pages it read
_extract_doi_from_pdf(pdf) ==
    IF ~pdf.fitz.opens THEN [doi |-> None, pages_read |-> 0]
    ELSE MetadataFirst(MetadataDoi(pdf.metadata, 1),
                       FirstCandidate(ScanPages(pdf.fitz.pages, 1, <<>>)))

(***************************************************************************)
(* _parse_structure: the section patterns                                  *)
(*   (?i)^header[:\s]*(.+?)(?=\n\n|stop|...|$)    under re.MULTILINE       *)
(* A header is a word, then for 'key\s*words?' and 'index\s*terms?' a run  *)
(* of white space and a second word, then an optional s.                   *)
(***************************************************************************)
\* k, given in lower case, occurs in t at index i whatever the case of t
HasAtCI(t, i, k) ==
    /\ i >= 1
    /\ i + Len(k) - 1 <= Len(t)
    /\ \A j \in 1..Len(k) : LowerChar(t[i + j - 1]) = k[j]

Header(first, second, plural) ==
    [first |-> Chars(first), second |-> Chars(second), plural |-> plural]

Pattern(header, anchored, dotall, stops) ==
    [header |-> header, anchored |-> anchored, dotall |-> dotall,
     stops |-> [k \in DOMAIN stops |-> Chars(stops[k])]]

\* ^ under re.MULTILINE
LineStart(t, i) == i = 1 \/ t[i - 1] = "\n"

\* $ under re.MULTILINE
LineEnd(t, p) == p = Len(t) + 1 \/ (p <= Len(t) /\ t[p] = "\n")

\* the index just after the words of the header when they match at index
\* i, else 0; the optional s is not counted
HeaderEnd(t, i, h) ==
    LET p == i + Len(h.first)
        q == p + RunLength(t, p, {" ", "\n"})
    IN  IF ~HasAtCI(t, i, h.first) THEN 0
        ELSE IF h.second = <<>> THEN p
        ELSE IF HasAtCI(t, q, h.second) THEN q + Len(h.second)
        ELSE 0

\* the lookahead holds at index p
StopsAt(t, p, stops) ==
    \/ HasAt(t, p, <<"\n", "\n">>)
    \/ \E k \in DOMAIN stops : HasAtCI(t, p, stops[k])
    \/ LineEnd(t, p)

\* (.+?) that starts at index c: the index of its last character, or 0
\* when it cannot match.  It is the shortest run of at least one
\* character after which the lookahead holds; without re.DOTALL the dot
\* takes no newline.
CaptureEnd(t, c, dotall, stops) ==
    LET newlines == {j \in c..Len(t) : t[j] = "\n"}
        limit    == IF dotall \/ newlines = {} THEN Len(t) ELSE MinOf(newlines) - 1
        ends     == {e \in c..limit : StopsAt(t, e + 1, stops)}
    IN  IF ends = {} THEN 0 ELSE MinOf(ends)

RECURSIVE CaptureFrom(_, _, _, _, _)
\* [:\s]* ends just before index c at first (it is greedy) and gives back
\* one character at a time, down to q
CaptureFrom(t, q, c, dotall, stops) ==
    IF c < q THEN None
    ELSE LET e == CaptureEnd(t, c, dotall, stops)
         IN  IF e # 0 THEN <<SubSeq(t, c, e)>>
             ELSE CaptureFrom(t, q, c - 1, dotall, stops)

\* group(1) of the match whose header words end just before index h, or
\* None; h = 0 says that the header does not match.  The optional s is
\* greedy: it is taken first and given back if the rest cannot match.
CaptureAfter(t, h, pat) ==
    LET Try(q) == CaptureFrom(t, q, q + RunLength(t, q, {":", " ", "\n"}),
                              pat.dotall, pat.stops)
    IN  IF h = 0 THEN None
        ELSE IF pat.header.plural /\ HasAtCI(t, h, <<"s">>)
        THEN OrElse(Try(h + 1), Try(h))
        ELSE Try(h)

\* group(1) of the match that starts at index i, or None
MatchSectionAt(t, i, pat) ==
    IF pat.anchored /\ ~LineStart(t, i) THEN None
    ELSE CaptureAfter(t, HeaderEnd(t, i, pat.header), pat)

\* the leftmost of the matches m[i] that start at each index i, or None
Leftmost(m) ==
    LET starts == {i \in DOMAIN m : m[i] # None}
    IN  IF starts = {} THEN None ELSE m[MinOf(starts)]

\* re.search(pattern, t): group(1) of the leftmost match, or None
SearchSection(t, pat) == Leftmost([i \in DOMAIN t |-> MatchSectionAt(t, i, pat)])

RECURSIVE FirstPattern(_, _, _)
\* for pattern in patterns: the first one that matches decides
FirstPattern(t, patterns, k) ==
    IF k > Len(patterns) THEN None
    ELSE OrElse(SearchSection(t, patterns[k]), FirstPattern(t, patterns, k + 1))

\* the section's text; a section that did not match has none
SectionText(m) == IF m # None THEN strip(m[1]) ELSE <<>>

abstract_patterns ==
    LET stops == <<"keywords", "introduction">>
    IN  << Pattern(Header("abstract", "", FALSE), TRUE, TRUE, stops),
           Pattern(Header("summary", "", FALSE), TRUE, TRUE, stops),
           Pattern(Header("overview", "", FALSE), TRUE, TRUE, stops) >>

keyword_patterns ==
    LET stops == <<"introduction", "abstract">>
    IN  << Pattern(Header("keyword", "", TRUE), FALSE, TRUE, stops),
           Pattern(Header("key", "word", TRUE), FALSE, TRUE, stops),
           Pattern(Header("index", "term", TRUE), FALSE, TRUE, stops) >>

author_patterns ==
    LET stops == <<"abstract", "keywords">>
    IN  << Pattern(Header("author", "", TRUE), TRUE, FALSE, stops),
           Pattern(Header("by", "", FALSE), TRUE, FALSE, stops) >>

(***************************************************************************)
(* _parse_structure: title, abstract, keywords, authors, year              *)
(***************************************************************************)
IsUpperChar(c) == c \in UpperSet

IsLowerChar(c) == c \in LowerSet \cup {CharFF}

\* str.isupper(): no lower-case character and at least one upper-case one
isupper(s) ==
    /\ \E i \in DOMAIN s : IsUpperChar(s[i])
    /\ \A i \in DOMAIN s : ~IsLowerChar(s[i])

\* str.istitle(): upper case only after an uncased character, lower case
\* only after a cased one, and at least one cased character
istitle(s) ==
    LET cased_before(i) == i > 1 /\ (IsUpperChar(s[i - 1]) \/ IsLowerChar(s[i - 1]))
    IN  /\ \E i \in DOMAIN s : IsUpperChar(s[i]) \/ IsLowerChar(s[i])
        /\ \A i \in DOMAIN s : /\ IsUpperChar(s[i]) => ~cased_before(i)
                               /\ IsLowerChar(s[i]) => cased_before(i)

\* [line.strip() for line in text.split('\n') if line.strip()]
CleanLines(text) ==
    LET lines == Split(text, "\n")
        kept  == Filter(lines, {l \in Range(lines) : strip(l) # <<>>})
    IN  [i \in DOMAIN kept |-> strip(kept[i])]

TitleLength(line) == TitleMinLen < Len(line) /\ Len(line) < TitleMaxLen

\* a mutant: the candidates are sorted by length first, the longest one wins
ParseTitle_LongestFirst(lines) ==
    LET head       == Take(lines, TitleScanLines)
        candidates == {i \in DOMAIN head :
                          TitleLength(head[i]) /\ (isupper(head[i]) \/ istitle(head[i]))}
        longest    == {i \in candidates : \A j \in candidates : Len(head[j]) <= Len(head[i])}
        fallback   == {i \in DOMAIN Take(lines, TitleFallbackLines) : TitleLength(lines[i])}
    IN  IF candidates # {}
        THEN head[MinOf(longest)]
        ELSE IF fallback # {}
        THEN lines[MinOf(fallback)]
        ELSE <<>>

\* the candidates are sorted by (index, -length): the earliest one wins
ParseTitle(lines) ==
    LET head       == Take(lines, TitleScanLines)
        candidates == {i \in DOMAIN head :
                          TitleLength(head[i]) /\ (isupper(head[i]) \/ istitle(head[i]))}
        fallback   == {i \in DOMAIN Take(lines, TitleFallbackLines) : TitleLength(lines[i])}
    IN  IF candidates # {}
        THEN head[MinOf(candidates)]
        ELSE IF fallback # {}
        THEN lines[MinOf(fallback)]
        ELSE <<>>

\* t.find(k, start) with 0-based positions: -1 when k does not occur
Find(t, k, start) ==
    LET at == {i \in (start + 1)..Len(t) : HasAt(t, i, k)}
    IN  IF at = {} THEN -1 ELSE MinOf(at) - 1

keyword_markers ==
    << Chars("keywords"), Chars("keyword"), Chars("key words"), Chars("introduction"),
       Chars("1. introduction"), Chars("1 introduction") >>

\* the fallback abstract: the text between the title and the next section
FallbackAbstract(text, title) ==
    LET title_pos == Find(lower(text), lower(title), 0)
        after     == title_pos + Len(title)
        found     == {Find(lower(text), keyword_markers[k], after) :
                         k \in DOMAIN keyword_markers} \ {-1}
        next_section_pos ==
            IF found = {} THEN Len(text)
            ELSE Min(Len(text), MinOf(found))
        potential_abstract ==
            CollapseSpaces(strip(SubSeq(text, after + 1, next_section_pos)))
    IN  IF /\ title_pos < next_section_pos
           /\ FallbackAbstractMin < Len(potential_abstract)
           /\ Len(potential_abstract) < AbstractMaxLen
        THEN potential_abstract
        ELSE <<>>

\* the abstract of the first pattern that matches; if that leaves it empty
\* and there is a title, the fallback
ParseAbstract(text, title) ==
    OrElse(Take(CollapseSpaces(SectionText(FirstPattern(text, abstract_patterns, 1))),
                AbstractMaxLen),
           IF title # <<>> THEN FallbackAbstract(text, title) ELSE <<>>)

\* the separators of re.split(r'[;,<bullet><middle dot>\n]+', ...)
KeywordSeparators == {";", ",", "U+2022", "U+00B7", "\n"}

RECURSIVE SplitRunsFrom(_, _, _)
SplitRunsFrom(s, seps, from) ==
    LET begins == {i \in from..Len(s) : s[i] \notin seps}
        b      == MinOf(begins)
        after  == {i \in b..Len(s) : s[i] \in seps}
    IN  IF begins = {} THEN <<>>
        ELSE IF after = {} THEN <<SubSeq(s, b, Len(s))>>
        ELSE <<SubSeq(s, b, MinOf(after) - 1)>> \o SplitRunsFrom(s, seps, MinOf(after))

\* the pieces between runs of separators; empty pieces at the two ends are
\* left out, the caller drops them anyway
SplitRuns(s, seps) == SplitRunsFrom(s, seps, 1)

\* re.sub(r'^\d+[\.\)]\s*', '', kw)
StripNumbering(kw) ==
    LET d == RunLength(kw, 1, Digits)
    IN  IF d >= 1 /\ d < Len(kw) /\ kw[d + 1] \in {".", ")"}
        THEN SubSeq(kw, d + 2 + RunLength(kw, d + 2, {" ", "\n"}), Len(kw))
        ELSE kw

CleanKeyword(kw) == strip(CollapseSpaces(StripNumbering(strip(kw))))

\* [x.strip() for x in pieces if x.strip()]
Stripped(pieces) ==
    Select([i \in DOMAIN pieces |-> strip(pieces[i])],
           {i \in DOMAIN pieces : strip(pieces[i]) # <<>>}, 1, Len(pieces))

\* cleaned_keywords[:20]
KeptKeywords(cleaned) ==
    Take(Filter(cleaned, {kw \in Range(cleaned) :
                             KeywordMinLen < Len(kw) /\ Len(kw) < KeywordMaxLen}),
         MaxKeywords)

\* the cleaning loop over the keywords
CleanedKeywords(keywords) == KeptKeywords([i \in DOMAIN keywords |-> CleanKeyword(keywords[i])])

ParseKeywords(text) ==
    CleanedKeywords(Stripped(SplitRuns(SectionText(FirstPattern(text, keyword_patterns, 1)),
                                       KeywordSeparators)))

\* the length of the separator  ,|\s+and\s+|\n  that starts at index i, or 0
AuthorSeparator(s, i) ==
    LET w1 == RunLength(s, i, {" ", "\n"})
        w2 == RunLength(s, i + w1 + 3, {" ", "\n"})
    IN  IF s[i] = "," THEN 1
        ELSE IF w1 >= 1 /\ HasAt(s, i + w1, <<"a", "n", "d">>) /\ w2 >= 1 THEN w1 + 3 + w2
        ELSE IF s[i] = "\n" THEN 1
        ELSE 0

RECURSIVE SplitAuthors(_, _)
\* re.split(r',|\s+and\s+|\n', s), from index from on
SplitAuthors(s, from) ==
    LET at == {i \in from..Len(s) : AuthorSeparator(s, i) # 0}
    IN  IF at = {} THEN <<SubSeq(s, from, Len(s))>>
        ELSE <<SubSeq(s, from, MinOf(at) - 1)>>
             \o SplitAuthors(s, MinOf(at) + AuthorSeparator(s, MinOf(at)))

ParseAuthors(text) ==
    Take(Stripped(SplitAuthors(SectionText(FirstPattern(text, author_patterns, 1)), 1)),
         MaxAuthors)

\* re.search(r'\b(19|20)\d{2}\b', line): group(0), or None
YearIn(line) ==
    LET starts == {i \in DOMAIN line :
                      /\ Boundary(line, i)
                      /\ (HasAt(line, i, <<"1", "9">>) \/ HasAt(line, i, <<"2", "0">>))
                      /\ RunLength(line, i + 2, Digits) >= 2
                      /\ Boundary(line, i + 4)}
    IN  IF starts = {} THEN None
        ELSE <<SubSeq(line, MinOf(starts), MinOf(starts) + 3)>>

ParseYear(lines) ==
    LET head == Take(lines, YearScanLines)
        with == {i \in DOMAIN head : YearIn(head[i]) # None}
    IN  IF with = {} THEN <<>>
        ELSE YearIn(head[MinOf(with)])[1]

_parse_structure(text) ==
    LET lines == CleanLines(text)
        title == ParseTitle(lines)
    IN  [title     |-> title,
         abstract  |-> ParseAbstract(text, title),
         keywords  |-> ParseKeywords(text),
         full_text |-> text,
         authors   |-> ParseAuthors(text),
         year      |-> ParseYear(lines),
         publisher |-> <<>>]

(***************************************************************************)
(* _fetch_doi_metadata: one GET to the resolver, whose answer is the       *)
(* environment's.  A JSON object is a record with the set of its keys.     *)
(***************************************************************************)
DigitSeq == <<"0", "1", "2", "3", "4", "5", "6", "7", "8", "9">>

RECURSIVE IntToChars(_)
\* str(n) for a natural number
IntToChars(n) ==
    IF n < 10 THEN <<DigitSeq[n + 1]>>
    ELSE IntToChars(n \div 10) \o <<DigitSeq[(n % 10) + 1]>>

\* a year as the lookup holds it: a JSON number, or a text
IntValue(n) == [is_int |-> TRUE, n |-> n, s |-> <<>>]

StrValue(s) == [is_int |-> FALSE, n |-> 0, s |-> s]

\* str(v)
str(v) == IF v.is_int THEN IntToChars(v.n) ELSE v.s

\* data['issued']['date-parts'][0][0], or the KeyError / IndexError default
PublishedYear(data) ==
    IF "issued" \notin data.keys THEN StrValue(Chars("Unknown year"))
    ELSE IF data.date_parts = <<>> THEN StrValue(Chars("Unknown year"))
    ELSE IF data.date_parts[1] = <<>> THEN StrValue(Chars("Unknown year"))
    ELSE IntValue(data.date_parts[1][1])

\* the full names of data['author'], the empty ones left out
AuthorsList(data) ==
    LET author == IF "author" \in data.keys THEN data.author ELSE <<>>
        names  == [i \in DOMAIN author |->
                      strip(author[i].given \o <<" ">> \o author[i].family)]
    IN  Filter(names, Range(names) \ {<<>>})

Failure(error) == [success |-> FALSE, error |-> error]

\* the dict built from a 200 answer; its fields url, type and
\* container_title are used nowhere in the extractor and are left out
Metadata(doi, data) ==
    LET authors_list == AuthorsList(data)
    IN  [success      |-> TRUE,
         doi          |-> doi,
         title        |-> IF "title" \in data.keys THEN data.title
                          ELSE Chars("Title not found"),
         year         |-> PublishedYear(data),
         authors      |-> IF authors_list # <<>> THEN Join(<<",", " ">>, authors_list)
                          ELSE Chars("Unknown authors"),
         authors_list |-> authors_list,
         publisher    |-> IF "publisher" \in data.keys THEN data.publisher
                          ELSE Chars("Unknown publisher"),
         abstract     |-> IF "abstract" \in data.keys THEN data.abstract ELSE <<>>]

\* a mutant: an answer that is not 200 is read like one that is
_fetch_doi_metadata_AnyStatus(doi, response) ==
    IF response.kind = "timeout" THEN Failure("Request timeout")
    ELSE IF response.kind = "connection_error" THEN Failure("Connection error")
    ELSE IF ~response.is_json /\ response.status = 200 THEN Failure("Connection error")
    ELSE Metadata(doi, response.data)

\* response.json() raising is caught by the last except clause
_fetch_doi_metadata(doi, response) ==
    IF response.kind = "timeout" THEN Failure("Request timeout")
    ELSE IF response.kind = "connection_error" THEN Failure("Connection error")
    ELSE IF response.status = 200
         THEN IF ~response.is_json THEN Failure("Connection error")
              ELSE Metadata(doi, response.data)
    ELSE IF response.status = 404 THEN Failure("DOI not found in database")
    ELSE Failure("Failed to fetch")

\* a mutant: the lookup's abstract replaces the parsed one
Enrich_OverwritesAbstract(structured, doi_metadata) ==
    [structured EXCEPT
        !.title     = IF @ = <<>> \/ @ = Chars("Untitled Document")
                      THEN doi_metadata.title ELSE @,
        !.abstract  = Take(doi_metadata.abstract, AbstractMaxLen),
        !.authors   = IF @ = <<>> THEN doi_metadata.authors_list ELSE @,
        !.year      = IF @ = <<>> THEN str(doi_metadata.year) ELSE @,
        !.publisher = doi_metadata.publisher,
        !.doi_metadata = <<doi_metadata>>]

\* lines 171-189 of extract_structured: the lookup's values go into the
\* parsed record
Enrich(structured, doi_metadata) ==
    [structured EXCEPT
        !.title     = IF @ = <<>> \/ @ = Chars("Untitled Document")
                      THEN doi_metadata.title ELSE @,
        !.abstract  = IF @ = <<>> THEN Take(doi_metadata.abstract, AbstractMaxLen) ELSE @,
        !.authors   = IF @ = <<>> THEN doi_metadata.authors_list ELSE @,
        !.year      = IF @ = <<>> THEN str(doi_metadata.year) ELSE @,
        !.publisher = doi_metadata.publisher,
        !.doi_metadata = <<doi_metadata>>]

(***************************************************************************)
(* extract_from_bytes and extract_structured                               *)
(*                                                                         *)
(* env.tmp says whether creating or writing the temporary file raises,     *)
(* env.unlink whether os.unlink raises: never, at the first attempt only,  *)
(* or at every attempt.  A call hands back what it returns (ret), the      *)
(* state in which it leaves its temporary file (tmp) and the library and   *)
(* system calls it made (events).                                          *)
(***************************************************************************)
Outcome(ret, tmp, events) == [ret |-> ret, tmp |-> tmp, events |-> events]

\* the tuple (text, file_type, success); extract_structured returns a dict
\* for the text: <<>> is the empty dict, <<r>> the record r
Tuple3(text, file_type, success) ==
    [text |-> text, file_type |-> file_type, success |-> success]

CreateError == Chars("No usable temporary directory")

WriteError == Chars("No space left on device")

UnlinkError == Chars("Permission denied")

\* the except clause: the file is removed only if tmp_path is bound, and a
\* failure to remove it is passed over
ExceptClause(e, tmp_path_bound, tmp, env, events) ==
    Outcome(Tuple3(<<>>, Chars("Extraction error: ") \o e, FALSE),
            IF tmp_path_bound /\ tmp = "exists" /\ env.unlink # "always"
            THEN "deleted" ELSE tmp,
            IF tmp_path_bound THEN events \o <<"unlink">> ELSE events)

\* a mutant: a text of white space passes for extracted text
IsEmptyText_NoTrim(text) == text = <<>>

\* not text or not text.strip()
IsEmptyText(text) == text = <<>> \/ strip(text) = <<>>

supported_ext == <<Chars(".pdf"), Chars(".docx"), Chars(".doc"), Chars(".txt"),
                   Chars(".rtf"), Chars(".md")>>

structured_ext == <<Chars(".pdf"), Chars(".docx"), Chars(".doc"), Chars(".txt")>>

StrategyNames(runs) == [i \in DOMAIN runs |-> runs[i].strategy]

\* the extractor chosen by the extension: its text, the file type, its calls
Dispatch(file, ext) ==
    IF ext = Chars(".pdf")
    THEN LET r == _extract_pdf_multi_method(file.pdf)
         IN  [text |-> r.text, file_type |-> Chars("PDF"), events |-> StrategyNames(r.runs)]
    ELSE IF ext = Chars(".docx")
    THEN [text |-> _extract_docx(file), file_type |-> Chars("DOCX"), events |-> <<"python-docx">>]
    ELSE IF ext = Chars(".doc")
    THEN [text |-> _extract_doc(file), file_type |-> Chars("DOC"), events |-> <<"read">>]
    ELSE [text |-> _extract_text(file), file_type |-> Chars("TEXT"), events |-> <<"read">>]

\* the else branch of the dispatch (lines 75-77) is never taken: every
\* supported extension has its branch
extract_from_bytes(file, filename, env) ==
    LET ext == lower(splitext(filename)[2])
        x   == Dispatch(file, ext)
        ev  == <<"mkstemp", "write">> \o x.events \o <<"unlink">>
    IN  IF filename = <<>> \/ strip(filename) = <<>>
        THEN Outcome(Tuple3(<<>>, Chars("Invalid filename"), FALSE), "none", <<>>)
        ELSE IF ~InList(ext, supported_ext)
        THEN Outcome(Tuple3(<<>>, Chars("Unsupported format: ") \o ext, FALSE), "none", <<>>)
        ELSE IF env.tmp = "create_raises"
        THEN ExceptClause(CreateError, FALSE, "none", env, <<"mkstemp">>)
        ELSE IF env.tmp = "write_raises"
        THEN ExceptClause(WriteError, FALSE, "exists", env, <<"mkstemp", "write">>)
        ELSE IF env.unlink # "ok"
        THEN ExceptClause(UnlinkError, TRUE, "exists", env, ev)
        ELSE IF IsEmptyText(x.text)
        THEN Outcome(Tuple3(<<>>, Chars("Empty text after extraction"), FALSE), "deleted", ev)
        ELSE Outcome(Tuple3(x.text, x.file_type, TRUE), "deleted", ev)

\* structured["doi"] = doi if doi else "".  The key doi_metadata is set only
\* by the enrichment: <<>> stands for its absence.
WithDoi(structured, doi) ==
    [title        |-> structured.title,
     abstract     |-> structured.abstract,
     keywords     |-> structured.keywords,
     full_text    |-> structured.full_text,
     authors      |-> structured.authors,
     year         |-> structured.year,
     publisher    |-> structured.publisher,
     doi          |-> IF doi # None THEN doi[1] ELSE <<>>,
     doi_metadata |-> <<>>]

\* doi of extract_structured: from the PDF itself, else from the text
DetectDoi(file, ext, full_text) ==
    IF ext = Chars(".pdf") THEN _extract_doi_from_pdf(file.pdf).doi
    ELSE _extract_doi_from_text(full_text)

\* lines 168-190: the parsed record, with the lookup's values when there is
\* an identifier and its lookup succeeds
StructuredRecord(parsed, doi, doi_metadata) ==
    IF doi # None /\ doi_metadata.success THEN Enrich(parsed, doi_metadata) ELSE parsed

\* a mutant: the lookup is made whether or not an identifier was detected
LookupEvents_Always(doi) == <<"lookup">>

\* if doi: one call of _fetch_doi_metadata, which sends one request
LookupEvents(doi) == IF doi = None THEN <<>> ELSE <<"lookup">>

\* the try block from the extracted text x and the detected identifier on;
\* the lookup is made only for an identifier
StructuredOutcome(x, ext, doi, env) ==
    LET ev == <<"mkstemp", "write">> \o x.events
              \o (IF ext = Chars(".pdf") THEN <<"PyMuPDF">> ELSE <<>>) \o <<"unlink">>
    IN  IF env.unlink # "ok"
        THEN ExceptClause(UnlinkError, TRUE, "exists", env, ev)
        ELSE IF IsEmptyText(x.text)
        THEN Outcome(Tuple3(<<>>, Chars("Empty text after extraction"), FALSE), "deleted", ev)
        ELSE Outcome(Tuple3(<<StructuredRecord(WithDoi(_parse_structure(x.text), doi), doi,
                                               _fetch_doi_metadata(doi[1], env.lookup))>>,
                            x.file_type, TRUE),
                     "deleted",
                     ev \o LookupEvents(doi))

extract_structured(file, filename, env) ==
    LET ext == lower(splitext(filename)[2])
    IN  IF filename = <<>> \/ strip(filename) = <<>>
        THEN Outcome(Tuple3(<<>>, Chars("Invalid filename"), FALSE), "none", <<>>)
        ELSE IF ~InList(ext, structured_ext)
        THEN Outcome(Tuple3(<<>>, Chars("Unsupported format for structured extraction: ") \o ext,
                            FALSE), "none", <<>>)
        ELSE IF env.tmp = "create_raises"
        THEN ExceptClause(CreateError, FALSE, "none", env, <<"mkstemp">>)
        ELSE IF env.tmp = "write_raises"
        THEN ExceptClause(WriteError, FALSE, "exists", env, <<"mkstemp", "write">>)
        ELSE StructuredOutcome(Dispatch(file, ext), ext,
                               DetectDoi(file, ext, Dispatch(file, ext).text), env)

(***************************************************************************)
(* upload_document of src/app.py: the endpoint that hands an uploaded file *)
(* to extract_from_bytes.  part says whether the request has a 'file'      *)
(* part and whether reading it raises; size is len(file_bytes).  A JSON    *)
(* answer is its status, the value of its "error" key if it has one, and   *)
(* its other keys if it has them.                                          *)
(***************************************************************************)
\* 16 * 1024 * 1024
MAX_CONTENT_LENGTH == 16777216

PreviewLen == 500

ReadError == Chars("Stream closed")

Response(status, error, body) == [status |-> status, error |-> error, body |-> body]

\* text, file_type, success = ...; if not success: {"error": text}
ErrorOfFailure(ret) == ret.text

\* the keys of the answer for an extracted text
UploadBody(filename, ret) ==
    [success        |-> TRUE,
     filename       |-> filename,
     file_type      |-> ret.file_type,
     extracted_text |-> ret.text,
     text_preview   |-> IF Len(ret.text) > PreviewLen
                        THEN Take(ret.text, PreviewLen) \o Chars("...")
                        ELSE ret.text,
     char_count     |-> Len(ret.text)]

\* the answer once extract_from_bytes has returned out
UploadAnswer(filename, out) ==
    Outcome(IF ~out.ret.success
            THEN Response(400, <<ErrorOfFailure(out.ret)>>, <<>>)
            ELSE IF strip(out.ret.text) = <<>>
            THEN Response(400, <<Chars("Teks kosong setelah ekstraksi")>>, <<>>)
            ELSE Response(200, <<>>, <<UploadBody(filename, out.ret)>>),
            out.tmp, out.events)

upload_document(part, file, size, filename, env) ==
    IF part = "absent"
    THEN Outcome(Response(400, <<Chars("Tidak ada file")>>, <<>>), "none", <<>>)
    ELSE IF filename = <<>>
    THEN Outcome(Response(400, <<Chars("File tidak dipilih")>>, <<>>), "none", <<>>)
    ELSE IF part = "unreadable"
    THEN Outcome(Response(500, <<Chars("Processing error: ") \o ReadError>>, <<>>), "none", <<>>)
    ELSE IF size > MAX_CONTENT_LENGTH
    THEN Outcome(Response(413, <<Chars("File terlalu besar (max 16MB)")>>, <<>>), "none", <<>>)
    ELSE UploadAnswer(filename, extract_from_bytes(file, filename, env))

(***************************************************************************)
(* Uploaded files, file names, and the environment of a call               *)
(***************************************************************************)
PaperText ==
    Chars("SOLAR POWER FOR ALL\nAuthors: Ann Lee, Bob Ray and Cy Doe\n")
    \o Chars("Abstract: We study ab.\nMore lines here.\n\n")
    \o Chars("Keywords: solar power; energy, grid\n\n")
    \o Chars("Published 2023 doi 10.1234/abc.5\n")

UntitledText == Chars("Untitled Document\nBy Ann Lee\n10.1234/u1\n")

BareText == Chars("10.1234/x9\n")

ManyText ==
    Chars("Keywords: k01, k02, k03, k04, k05, k06, k07, k08, k09, k10, k11, ")
    \o Chars("k12, k13, k14, k15, k16, k17, k18, k19, k20, k21\n")
    \o Chars("Authors: a1, a2, a3, a4, a5, a6, a7, a8, a9, a10, a11\n")

PlainText == Chars("Ab text")

FirstPageText == Chars("Title page 10.1234/p0.")

ReferencesText == Chars("10.1234/r1 10.1234/r2 10.1234/r3 10.1234/r4")

TwoDoiText == Chars("10.1234/t1, 10.1234/t2")

\* a plain line, then two lines in title case and in capitals
TitledText == Chars("some plain words here\nA Short Title Here\nA MUCH LONGER TITLE LINE\n")

\* the keyword line of the sample paper, cut to one line
SampleText == Chars("KEYWORDS: renewable energy, sustainable development, solar power")

\* keywords that go on in a second line, up to a blank line
WrappedText == Chars("Keywords: solar power, wind\nenergy grid; 1. reuse\n\nIntroduction\n")

\* two keyword headers, the later pattern's header first
HeadersText == Chars("Summary: short sum.\nIndex terms: aaa\nKey words: bbb\nOverview: ov.\n")

Page(text) == [raises |-> FALSE, text |-> text]

UnreadablePage == [raises |-> TRUE, text |-> <<>>]

Reads(pages) == [opens |-> TRUE, pages |-> pages]

CannotOpen == [opens |-> FALSE, pages |-> <<>>]

Pdf(metadata, fitz, pdfplumber, PyPDF2) ==
    [metadata |-> metadata, fitz |-> fitz, pdfplumber |-> pdfplumber, PyPDF2 |-> PyPDF2]

NotAPdf == Pdf(<<>>, CannotOpen, CannotOpen, CannotOpen)

NotADocx == [valid |-> FALSE, paragraphs |-> <<>>, cells |-> <<>>]

PdfBytes == Chars("%PDF") \o <<ByteFF>>

TextFile(text) == [bytes |-> text, docx |-> NotADocx, pdf |-> NotAPdf]

PdfFile(pdf) == [bytes |-> PdfBytes, docx |-> NotADocx, pdf |-> pdf]

\* the uploaded file of each name
FileOf(name) ==
    CASE name = "paper.txt"    -> TextFile(PaperText)
      [] name = "untitled.txt" -> TextFile(UntitledText)
      [] name = "bare.txt"     -> TextFile(BareText)
      [] name = "many.txt"     -> TextFile(ManyText)
      [] name = "blank.txt"    -> TextFile(Chars("  \n "))
      [] name = "latin.txt"    -> TextFile(Chars("caf") \o <<ByteFF>> \o Chars(" 2020\nab\n"))
      [] name = "paper.docx"   ->
            [bytes |-> Chars("PK") \o <<ByteFF>>,
             docx  |-> [valid |-> TRUE,
                        paragraphs |-> <<Chars("A Study Of Ab"), Chars("  "), Chars("doi 10.1234/d1")>>,
                        cells |-> <<Chars("Cell text"), <<>>>>],
             pdf   |-> NotAPdf]
      [] name = "paper.pdf" ->
            PdfFile(Pdf(<<Chars("Ann Lee"), <<>>>>,
                        Reads(<<Page(FirstPageText), Page(PlainText), Page(<<>>), Page(ReferencesText)>>),
                        Reads(<<Page(PlainText)>>), Reads(<<Page(PlainText)>>)))
      [] name = "meta.pdf" ->
            PdfFile(Pdf(<<<<>>, Chars("doi:10.5555/meta"), Chars("10.5555/other")>>,
                        Reads(<<Page(FirstPageText)>>),
                        Reads(<<Page(PlainText)>>), Reads(<<Page(PlainText)>>)))
      [] name = "refs.pdf" ->
            PdfFile(Pdf(<<>>, Reads(<<Page(ReferencesText), Page(TwoDoiText)>>),
                        CannotOpen, CannotOpen))
      [] name = "scanned.pdf" ->
            PdfFile(Pdf(<<>>, Reads(<<Page(Chars(" ")), Page(<<>>)>>),
                        Reads(<<Page(UntitledText)>>), Reads(<<Page(PlainText)>>)))
      [] name = "third.pdf" ->
            PdfFile(Pdf(<<>>, CannotOpen, Reads(<<Page(<<>>)>>), Reads(<<Page(PlainText)>>)))
      [] name = "partial.pdf" ->
            PdfFile(Pdf(<<>>, Reads(<<Page(FirstPageText), UnreadablePage>>),
                        CannotOpen, Reads(<<Page(PlainText)>>)))
      [] name = "dead.pdf" -> PdfFile(NotAPdf)

TextFiles == {"paper.txt", "untitled.txt", "bare.txt", "many.txt", "blank.txt", "latin.txt"}

PdfFiles == {"paper.pdf", "meta.pdf", "refs.pdf", "scanned.pdf", "third.pdf",
             "partial.pdf", "dead.pdf"}

Uploads == TextFiles \cup {"paper.docx"} \cup PdfFiles

\* the filename argument
Filenames ==
    {Chars(""), Chars(" "), Chars("a"), Chars(".pdf"), Chars("a.pdf/b"), Chars("a.exe"),
     Chars("a.pdf"), Chars("a.docx"), Chars("a.doc"), Chars("A.TXT"), Chars("a.rtf"),
     Chars("a.md")}

StructuredFilenames ==
    {Chars(""), Chars("a.rtf"), Chars("a.pdf"), Chars("a.docx"), Chars("a.doc"),
     Chars("A.TXT")}

Name(given, family) == [given |-> Chars(given), family |-> Chars(family)]

\* the JSON object the resolver answers with
JsonOf(name) ==
    CASE name = "full" ->
            [keys |-> {"title", "issued", "author", "publisher", "abstract"},
             title |-> Chars("A Looked Up Title"), date_parts |-> << <<2021, 5>> >>,
             author |-> <<Name("Ann", "Lee"), Name("", ""), Name("Bob", "")>>,
             publisher |-> Chars("ACM"), abstract |-> Chars("Looked up abstract.")]
      [] name = "crowd" ->
            [keys |-> {"title", "author"},
             title |-> Chars("Many Hands"), date_parts |-> <<>>,
             author |-> [i \in 1..(MaxAuthors + 1) |-> Name("N", "M")],
             publisher |-> <<>>, abstract |-> <<>>]
      [] name = "undated" ->
            [keys |-> {"issued"},
             title |-> <<>>, date_parts |-> << <<>> >>, author |-> <<>>,
             publisher |-> <<>>, abstract |-> <<>>]

JsonAnswers == {"full", "crowd", "undated"}

Lookups == {"timeout", "connection_error", "not_found", "server_error", "not_json"}
           \cup JsonAnswers

\* the response of requests.get under each lookup
ResponseOf(lookup) ==
    [kind    |-> IF lookup \in {"timeout", "connection_error"} THEN lookup ELSE "status",
     status  |-> IF lookup = "not_found" THEN 404
                 ELSE IF lookup = "server_error" THEN 500 ELSE 200,
     is_json |-> lookup \in JsonAnswers,
     data    |-> IF lookup \in JsonAnswers THEN JsonOf(lookup) ELSE JsonOf("undated")]

\* the texts handed to _parse_structure, by name
Documents ==
    {"paper.txt", "untitled.txt", "bare.txt", "many.txt", "blank.txt", "latin.txt",
     "titled", "sample", "wrapped", "headers"}

DocumentText(doc) ==
    CASE doc = "titled"  -> TitledText
      [] doc = "sample"  -> SampleText
      [] doc = "wrapped" -> WrappedText
      [] doc = "headers" -> HeadersText
      [] OTHER           -> _extract_text(FileOf(doc))

TmpFaults == {"ok", "create_raises", "write_raises"}

UnlinkFaults == {"ok", "once", "always"}

EnvOf(req) == [tmp |-> req.tmp, unlink |-> req.unlink, lookup |-> ResponseOf(req.lookup)]

(***************************************************************************)
(* The extractor's state machine                                           *)
(***************************************************************************)
InitExtract ==
    /\ dir_exists = FALSE
    /\ files = DirFrom(NumSDG + 1, "basic")
    /\ padded = NoFiles
    /\ calls = NoCalls
    /\ edited = FALSE
    /\ hashseed = 0
    /\ rules = <<>>
    /\ is_loaded = FALSE
    /\ last = NoCall
    /\ returned = NoReturn
    /\ ExtractorAtRest

\* no extractor call is in progress and no result is pending at the caller
ExtractorIdle == request.name = "none"

Call(name, file, filename, tmp, unlink, lookup) ==
    [name |-> name, file |-> file, filename |-> filename,
     tmp |-> tmp, unlink |-> unlink, lookup |-> lookup]

\* a call of DocumentExtractor.extract_from_bytes(file_bytes, filename)
ExtractFromBytes(file, filename, tmp, unlink) ==
    LET req == Call("extract_from_bytes", file, filename, tmp, unlink, "timeout")
        out == extract_from_bytes(FileOf(file), filename, EnvOf(req))
    IN  /\ ExtractorIdle
        /\ request' = req
        /\ reply' = [name |-> req.name, ret |-> out.ret, events |-> out.events]
        /\ tmp_file' = out.tmp
        /\ UNCHANGED engine_vars

\* a call of DocumentExtractor.extract_structured(file_bytes, filename)
ExtractStructured(file, filename, tmp, unlink, lookup) ==
    LET req == Call("extract_structured", file, filename, tmp, unlink, lookup)
        out == extract_structured(FileOf(file), filename, EnvOf(req))
    IN  /\ ExtractorIdle
        /\ request' = req
        /\ reply' = [name |-> req.name, ret |-> out.ret, events |-> out.events]
        /\ tmp_file' = out.tmp
        /\ UNCHANGED engine_vars

\* the uploads of the endpoint: the files, and one of 16 MB and a byte,
\* whose bytes are not spelt out since only their number is read
Posted == {"paper.txt", "blank.txt", "paper.pdf", "dead.pdf", "huge.bin"}

\* the names of the file part: none, blank, unsupported, supported
PostedNames == {Chars(""), Chars(" "), Chars("a.exe"), Chars("a.pdf"), Chars("A.TXT")}

PostedFile(name) == IF name = "huge.bin" THEN TextFile(<<>>) ELSE FileOf(name)

PostedSize(name) ==
    IF name = "huge.bin" THEN MAX_CONTENT_LENGTH + 1 ELSE Len(FileOf(name).bytes)

Parts == {"absent", "unreadable", "ok"}

\* a POST to /api/upload/document
UploadDocument(part, file, filename, tmp, unlink) ==
    LET req == [name |-> "upload_document", part |-> part, file |-> file,
                filename |-> filename, tmp |-> tmp, unlink |-> unlink, lookup |-> "timeout"]
        out == upload_document(part, PostedFile(file), PostedSize(file), filename, EnvOf(req))
    IN  /\ ExtractorIdle
        /\ request' = req
        /\ reply' = [name |-> req.name, response |-> out.ret, events |-> out.events]
        /\ tmp_file' = out.tmp
        /\ UNCHANGED engine_vars

\* a call of DocumentExtractor._extract_pdf_multi_method(file_path)
ExtractPdfMultiMethod(file) ==
    LET out == _extract_pdf_multi_method(FileOf(file).pdf)
    IN  /\ ExtractorIdle
        /\ request' = Call("_extract_pdf_multi_method", file, <<>>, "ok", "ok", "timeout")
        /\ reply' = [name |-> "_extract_pdf_multi_method", text |-> out.text, runs |-> out.runs]
        /\ UNCHANGED <<tmp_file, engine_vars>>

\* a call of DocumentExtractor._extract_doi_from_pdf(pdf_path)
ExtractDoiFromPdf(file) ==
    LET out == _extract_doi_from_pdf(FileOf(file).pdf)
    IN  /\ ExtractorIdle
        /\ request' = Call("_extract_doi_from_pdf", file, <<>>, "ok", "ok", "timeout")
        /\ reply' = [name |-> "_extract_doi_from_pdf", doi |-> out.doi,
                     pages_read |-> out.pages_read]
        /\ UNCHANGED <<tmp_file, engine_vars>>

\* a call of DocumentExtractor._parse_structure(text)
ParseStructure(doc) ==
    /\ ExtractorIdle
    /\ request' = Call("_parse_structure", doc, <<>>, "ok", "ok", "timeout")
    /\ reply' = [name |-> "_parse_structure", result |-> _parse_structure(DocumentText(doc))]
    /\ UNCHANGED <<tmp_file, engine_vars>>

\* the caller has taken the result
ExtractorReturn ==
    /\ ~ExtractorIdle
    /\ request' = NoRequest
    /\ reply' = NoReply
    /\ tmp_file' = "none"
    /\ UNCHANGED engine_vars

NextExtract ==
    \/ \E file \in Uploads, filename \in Filenames, tmp \in TmpFaults, unlink \in UnlinkFaults :
           ExtractFromBytes(file, filename, tmp, unlink)
    \/ \E file \in Uploads, filename \in StructuredFilenames, tmp \in TmpFaults,
          unlink \in UnlinkFaults, lookup \in Lookups :
           ExtractStructured(file, filename, tmp, unlink, lookup)
    \/ \E file \in PdfFiles : ExtractPdfMultiMethod(file)
    \/ \E file \in PdfFiles : ExtractDoiFromPdf(file)
    \/ \E doc \in Documents : ParseStructure(doc)
    \/ \E part \in Parts, file \in Posted, filename \in PostedNames, tmp \in TmpFaults,
          unlink \in UnlinkFaults :
           UploadDocument(part, file, filename, tmp, unlink)
    \/ ExtractorReturn

SpecExtract == InitExtract /\ [][NextExtract]_vars

(***************************************************************************)
(* Claims about the extractor                                              *)
(***************************************************************************)
FromBytesReturned == reply.name = "extract_from_bytes"

StructuredReturned == reply.name = "extract_structured"

EntryPointReturned == FromBytesReturned \/ StructuredReturned

\* the extension of the call's filename, in lower case
RequestExt == lower(splitext(request.filename)[2])

\* the six extensions extract_from_bytes is documented to take
DocumentedExtensions ==
    {Chars(".pdf"), Chars(".docx"), Chars(".doc"), Chars(".txt"), Chars(".rtf"), Chars(".md")}

\* neither the temporary file nor its removal fails
NoFault == request.tmp = "ok" /\ request.unlink = "ok"

\* C11: extract_from_bytes returns ok=false whenever the filename is empty
\* or blank, whenever the extension is not one of pdf, docx, doc, txt, rtf,
\* md (whatever the bytes are), and whenever the dispatched extractor
\* returns only white space; and whenever it returns ok=true the returned
\* text is non-empty after trimming.
C11_FailsOrReturnsText ==
    FromBytesReturned =>
        /\ (\A i \in DOMAIN request.filename : IsSpace(request.filename[i]))
               => ~reply.ret.success
        /\ RequestExt \notin DocumentedExtensions => ~reply.ret.success
        /\ (/\ RequestExt \in DocumentedExtensions
            /\ \A i \in DOMAIN Dispatch(FileOf(request.file), RequestExt).text :
                   IsSpace(Dispatch(FileOf(request.file), RequestExt).text[i]))
               => ~reply.ret.success
        /\ reply.ret.success => strip(reply.ret.text) # <<>>

\* a file of white space only, under a supported name and with no fault, is
\* reported as empty
C11_Witness ==
    /\ FromBytesReturned
    /\ request.file = "blank.txt"
    /\ request.filename = Chars("A.TXT")
    /\ NoFault
    /\ ~reply.ret.success
    /\ reply.ret.file_type = Chars("Empty text after extraction")

\* the output of one library alone: it reads every page, and some page has
\* text that is not blank
YieldsText(view) ==
    /\ view.opens
    /\ \A i \in DOMAIN view.pages : ~view.pages[i].raises
    /\ \E i \in DOMAIN view.pages : strip(view.pages[i].text) # <<>>

\* C12: in _extract_pdf_multi_method, if strategy 1 (PyMuPDF) yields output
\* that is non-empty after trimming, strategies 2 and 3 are never invoked;
\* and strategy 3 is never invoked when strategy 2 (pdfplumber) is the
\* first to yield non-empty output.  A strategy yields its output when it
\* reads the whole document without raising.
C12_LaterStrategiesSkipped ==
    reply.name = "_extract_pdf_multi_method" =>
        LET pdf     == FileOf(request.file).pdf
            invoked == StrategyNames(reply.runs)
        IN  /\ YieldsText(pdf.fitz) => invoked = <<"PyMuPDF">>
            /\ (~YieldsText(pdf.fitz) /\ YieldsText(pdf.pdfplumber))
                   => invoked = <<"PyMuPDF", "pdfplumber">>

\* the first library reads only blank pages and the second one yields text
C12_Witness ==
    /\ reply.name = "_extract_pdf_multi_method"
    /\ request.file = "scanned.pdf"
    /\ StrategyNames(reply.runs) = <<"PyMuPDF", "pdfplumber">>
    /\ reply.text = strip(UntitledText)

\* C13: when extract_from_bytes or extract_structured returns, on every
\* exit path (success, empty extracted text, an exception raised while the
\* uploaded bytes are written, an exception raised by an extractor) the
\* temporary file that the call created no longer exists.  Stated for the
\* calls in which os.unlink itself does not fail.
C13_TempFileGone ==
    (EntryPointReturned /\ request.unlink = "ok") => tmp_file # "exists"

\* what the same call returns when removing the temporary file succeeds
WithoutUnlinkFault ==
    LET env == [EnvOf(request) EXCEPT !.unlink = "ok"]
    IN  IF request.name = "extract_from_bytes"
        THEN extract_from_bytes(FileOf(request.file), request.filename, env).ret
        ELSE extract_structured(FileOf(request.file), request.filename, env).ret

\* C14: a failure to delete the temporary file never changes the outcome of
\* the call: extract_from_bytes and extract_structured return what they
\* return when the deletion succeeds, be it the text with ok=true or the
\* original failure.
C14_UnlinkFailureIsSilent ==
    (EntryPointReturned /\ request.unlink # "ok") => reply.ret = WithoutUnlinkFault

\* extract_structured returned a record with success
RecordReturned == StructuredReturned /\ reply.ret.success

\* the returned record
Record == reply.ret.text[1]

\* what structure parsing makes of the text the record carries
Parsed == _parse_structure(Record.full_text)

\* the lookup succeeded and its values were merged into the record
Enriched == RecordReturned /\ Record.doi_metadata # <<>>

\* the external lookup was issued
LookupIssued == InList("lookup", reply.events)

Placeholder == Chars("Untitled Document")

FailedLookups == {"timeout", "connection_error", "not_found", "server_error", "not_json"}

\* the fields of a record that come from the document
DocumentFields(r) ==
    [title |-> r.title, abstract |-> r.abstract, keywords |-> r.keywords,
     authors |-> r.authors, year |-> r.year, publisher |-> r.publisher]

\* what the same call returns when the lookup ends in not-found
WithLookupNotFound ==
    extract_structured(FileOf(request.file), request.filename,
                       [EnvOf(request) EXCEPT !.lookup = ResponseOf("not_found")]).ret

\* C16: when the lookup for a detected identifier ends in not-found, another
\* non-200 status, a timeout, a transport error or a JSON parse failure,
\* extract_structured still returns success and the returned record equals
\* the parsed record (title, abstract, keywords, authors, year, publisher);
\* every kind of failure yields the record that not-found yields.
C16_FailedLookupIsSilent ==
    (StructuredReturned /\ LookupIssued /\ request.lookup \in FailedLookups) =>
        /\ reply.ret.success
        /\ DocumentFields(Record) = DocumentFields(Parsed)
        /\ Record.doi_metadata = <<>>
        /\ reply.ret = WithLookupNotFound

\* a timeout of the lookup for the identifier of a document with a title
C16_Witness ==
    /\ RecordReturned
    /\ LookupIssued
    /\ request.lookup = "timeout"
    /\ Record.doi # <<>>
    /\ Record.title # <<>>

\* C17: in every record that extract_structured returns with success, the
\* year is the empty string or exactly four digits.
C17_YearIsFourDigits ==
    RecordReturned =>
        \/ Record.year = <<>>
        \/ (Len(Record.year) = 4 /\ \A i \in 1..4 : Record.year[i] \in Digits)

\* C18: in every record that extract_structured returns with success, the
\* authors are at most 10 and the keywords at most 20.
C18_ListsAreCapped ==
    RecordReturned =>
        /\ Len(Record.authors) <= MaxAuthors
        /\ Len(Record.keywords) <= MaxKeywords

\* the identifier matches of page i of the document as PyMuPDF reads it
PageMatches(pdf, i) == _find_doi_in_text(pdf.fitz.pages[i].text)

\* the pages that give candidates: between 1 and DensityLimit matches
CandidatePages(pdf) ==
    {i \in DOMAIN pdf.fitz.pages :
        Len(PageMatches(pdf, i)) >= 1 /\ Len(PageMatches(pdf, i)) <= DensityLimit}

\* the metadata values that hold an identifier
MetadataHits(pdf) ==
    {i \in DOMAIN pdf.metadata : _find_doi_in_text(pdf.metadata[i]) # <<>>}

\* the identifier the claim names for a document
ClaimedDoi(pdf) ==
    IF MetadataHits(pdf) # {}
    THEN <<_find_doi_in_text(pdf.metadata[MinOf(MetadataHits(pdf))])[1]>>
    ELSE IF CandidatePages(pdf) # {}
    THEN <<PageMatches(pdf, MinOf(CandidatePages(pdf)))[1]>>
    ELSE None

AllPagesReadable(pdf) == \A i \in DOMAIN pdf.fitz.pages : ~pdf.fitz.pages[i].raises

Positions(e) == {i \in DOMAIN reply.events : reply.events[i] = e}

\* the text that the call extracts and the identifier it detects in it
ExtractedText == Dispatch(FileOf(request.file), RequestExt).text

Detected == DetectDoi(FileOf(request.file), RequestExt, ExtractedText)

\* the call gets as far as the parsing: a supported name, no fault, a text
ReachesParsing ==
    /\ InList(RequestExt, structured_ext)
    /\ strip(request.filename) # <<>>
    /\ NoFault
    /\ strip(ExtractedText) # <<>>

\* C27: during one extract_structured call at most one lookup request is
\* issued; it is issued only after the temporary file has been deleted and
\* the extracted text was found non-empty, and none is issued when no
\* identifier was detected; a missing identifier is not an error: the call
\* still returns success, with an empty identifier.
C27_OneLookupAfterUnlink ==
    StructuredReturned =>
        /\ Cardinality(Positions("lookup")) <= 1
        /\ \A i \in Positions("lookup") :
               /\ \E j \in Positions("unlink") : j < i
               /\ tmp_file = "deleted"
               /\ ReachesParsing
               /\ Detected # None
        /\ (ReachesParsing /\ Detected = None) =>
               /\ Positions("lookup") = {}
               /\ reply.ret.success
               /\ Record.doi = <<>>

\* a document with an identifier: the request is the last call, after the
\* removal of the temporary file, and the lookup fails without a retry
C27_Witness ==
    /\ StructuredReturned
    /\ request.file = "paper.txt"
    /\ request.lookup = "server_error"
    /\ Detected = <<Chars("10.1234/abc.5")>>
    /\ Positions("lookup") = {Len(reply.events)}
    /\ Positions("unlink") = {Len(reply.events) - 1}
    /\ tmp_file = "deleted"
    /\ reply.ret.success

(***************************************************************************)
(* Claims about the upload endpoint                                        *)
(***************************************************************************)
UploadReturned == reply.name = "upload_document"

\* the upload reached the extractor: a file part with a name, that can be
\* read and is not too large
Extracted ==
    /\ UploadReturned
    /\ request.part = "ok"
    /\ request.filename # <<>>
    /\ request.file # "huge.bin"

\* what extract_from_bytes returned to the endpoint
ExtractorResult ==
    extract_from_bytes(FileOf(request.file), request.filename, EnvOf(request)).ret

\* C29 as stated: when extract_from_bytes reports failure (invalid filename,
\* unsupported format, empty text after extraction, an extraction
\* exception), the upload endpoint answers with status 400 and an error
\* message equal to the failure reason the extractor produced, never an
\* empty message.
C29_FailureReasonReported ==
    (Extracted /\ ~ExtractorResult.success) =>
        /\ reply.response.status = 400
        /\ reply.response.error = <<ExtractorResult.file_type>>
        /\ reply.response.error # <<<<>>>>

(***************************************************************************)
(* Claims about the text of a PDF                                          *)
(***************************************************************************)
\* what each library yields on the file of the call when it runs alone
Alone ==
    LET pdf == FileOf(request.file).pdf
    IN  << Strategy("PyMuPDF", pdf.fitz, <<>>),
           Strategy("pdfplumber", pdf.pdfplumber, <<>>),
           Strategy("PyPDF2", pdf.PyPDF2, <<>>) >>

\* the strategies that end with a non-empty text
Winners == {k \in DOMAIN Alone : ~Alone[k].raised /\ strip(Alone[k].text) # <<>>}

\* C24 as stated: the text returned by _extract_pdf_multi_method is the
\* per-page concatenation of a single strategy, the first one whose output
\* is non-empty after trimming; it never holds text of an earlier strategy
\* that was abandoned, and it is empty exactly when every strategy yielded
\* empty output.
C24_TextOfOneStrategy ==
    reply.name = "_extract_pdf_multi_method" =>
        /\ Winners # {} => reply.text = strip(Alone[MinOf(Winners)].text)
        /\ Winners = {} => reply.text = <<>>
        /\ reply.text = <<>> \/ \E k \in DOMAIN Alone : reply.text = strip(Alone[k].text)

(***************************************************************************)
(* Claims about structure parsing                                          *)
(***************************************************************************)
ParseReturned == reply.name = "_parse_structure"

\* the text that was parsed, and its lines: trimmed, the blank ones left out
ParsedText == reply.result.full_text

ParsedLines == CleanLines(ParsedText)

Admissible(line) == Len(line) > 10 /\ Len(line) < 250

\* the admissible lines among the first 15 that are in capitals or in title
\* case, and the admissible lines among the first 5
TitleCandidates(lines) ==
    {i \in DOMAIN lines :
        i <= 15 /\ Admissible(lines[i]) /\ (isupper(lines[i]) \/ istitle(lines[i]))}

FallbackTitles(lines) == {i \in DOMAIN lines : i <= 5 /\ Admissible(lines[i])}

\* C21: the parsed title is the earliest line, among the first 15 lines,
\* whose length is strictly between 10 and 250 and that is fully upper-case
\* or title-case; if there is none it is the first line among the first 5
\* with a length strictly between 10 and 250; if there is none either the
\* title is empty.  A text whose first line is an admissible line in
\* capitals has that line as its title.
C21_TitleIsEarliestCandidate ==
    ParseReturned =>
        LET lines == ParsedLines
            title == reply.result.title
            c     == TitleCandidates(lines)
            f     == FallbackTitles(lines)
        IN  /\ c # {} => \E i \in c : title = lines[i] /\ \A j \in c : i <= j
            /\ (c = {} /\ f # {}) => \E i \in f : title = lines[i] /\ \A j \in f : i <= j
            /\ (c = {} /\ f = {}) => title = <<>>
            /\ (lines # <<>> /\ Admissible(lines[1]) /\ isupper(lines[1])) => title = lines[1]

\* a plain admissible line comes first and a longer candidate comes later:
\* the title is the first candidate
C21_Witness ==
    /\ ParseReturned
    /\ request.file = "titled"
    /\ TitleCandidates(ParsedLines) = {2, 3}
    /\ FallbackTitles(ParsedLines) = {1, 2, 3}
    /\ Len(ParsedLines[3]) > Len(ParsedLines[2])
    /\ reply.result.title = Chars("A Short Title Here")

\* the indices of t where the header of pattern pat begins
HeaderStarts(t, pat) ==
    {i \in DOMAIN t : (pat.anchored => LineStart(t, i)) /\ HeaderEnd(t, i, pat.header) # 0}

HeaderPresent(t, patterns) == \E k \in DOMAIN patterns : HeaderStarts(t, patterns[k]) # {}

\* the whole span after the first header of pat in t: from after the
\* header, its optional s and the colons and white space that follow, up to
\* the next blank line, the next section header or the end of the text
WholeSpan(t, pat) ==
    LET i    == MinOf(HeaderStarts(t, pat))
        h    == HeaderEnd(t, i, pat.header)
        q    == IF pat.header.plural /\ HasAtCI(t, h, <<"s">>) THEN h + 1 ELSE h
        c    == q + RunLength(t, q, {":", " ", "\n"})
        ends == {p \in c..(Len(t) + 1) :
                    \/ p = Len(t) + 1
                    \/ HasAt(t, p, <<"\n", "\n">>)
                    \/ \E k \in DOMAIN pat.stops : HasAtCI(t, p, pat.stops[k])}
    IN  SubSeq(t, c, MinOf(ends) - 1)

\* the whole span of the first pattern, in order, whose header is in t
SpanOfFirstHeader(t, patterns) ==
    WholeSpan(t, patterns[MinOf({k \in DOMAIN patterns : HeaderStarts(t, patterns[k]) # {}})])

\* the tokens of a span: split on the separators, trimmed, the enumeration
\* prefix removed, white space collapsed, length strictly between 2 and 60,
\* the first 20
TokensOf(span) ==
    LET pieces  == SplitRuns(strip(span), KeywordSeparators)
        trimmed == [i \in DOMAIN pieces |-> strip(CollapseSpaces(StripNumbering(strip(pieces[i]))))]
        kept    == Filter(trimmed, {kw \in Range(trimmed) : Len(kw) > 2 /\ Len(kw) < 60})
    IN  Take(kept, 20)

\* C22 as stated: when a keyword header is present the parsed keywords are
\* the tokens of the whole span from the header up to the next blank line or
\* section boundary, continuation lines included, each cleaned, of length
\* strictly between 2 and 60, at most 20; the one-line input 'KEYWORDS:
\* renewable energy, sustainable development, solar power' gives exactly
\* those three keywords in that order.
C22_KeywordsOfWholeSpan ==
    ParseReturned =>
        /\ HeaderPresent(ParsedText, keyword_patterns) =>
               reply.result.keywords = TokensOf(SpanOfFirstHeader(ParsedText, keyword_patterns))
        /\ ParsedText = SampleText =>
               reply.result.keywords = << Chars("renewable energy"),
                                          Chars("sustainable development"),
                                          Chars("solar power") >>

\* C23 as stated: when a line begins with an abstract header the parsed
\* abstract is the whitespace-collapsed text of the whole span from the
\* header up to the next blank line, the next known section header or the
\* end of the text, all lines of the paragraph, cut to 2000 characters.
C23_AbstractOfWholeSpan ==
    (ParseReturned /\ HeaderPresent(ParsedText, abstract_patterns)) =>
        reply.result.abstract =
            Take(CollapseSpaces(strip(SpanOfFirstHeader(ParsedText, abstract_patterns))), 2000)

(***************************************************************************)
(* Claims about the loader                                                 *)
(***************************************************************************)
\* the directory holds a file that cannot be opened or parsed
SomeBadFile ==
    \E n \in SDGNumbers : files[n] \in BadFiles \/ padded[n] \in BadFiles

\* the categories that have a valid rule file under one of the two names
CategoriesOnDisk ==
    {n \in SDGNumbers : files[n] \in ValidFiles \/ padded[n] \in ValidFiles}

\* C25 as stated: for each category number n in 1..17 load_rules tries
\* several filename conventions in a fixed order (SDG07.json, sdg_7.json)
\* and uses the first that parses; a category whose rule file exists under
\* any one of these names is present in the store after load_rules.  Stated
\* for the loads of a directory all of whose files can be parsed.
C25_AnyConventionLoaded ==
    (LoadReturned /\ dir_exists /\ ~SomeBadFile) =>
        CategoriesOnDisk \subseteq DictKeys(rules)

\* C30 as stated: after any sequence of load_rules calls, the contents of
\* the directory changing between the calls, is_loaded is true exactly when
\* the most recent load_rules call returned True, and whenever is_loaded is
\* true the store holds at least one category.
C30_LoadedIffLastLoadSucceeded ==
    /\ LoadReturned => (is_loaded <=> returned.ok)
    /\ is_loaded => DictKeys(rules) # {}

(***************************************************************************)
(* Claims about concurrent calls                                           *)
(***************************************************************************)
\* what the call of thread c returns when no other call runs
Alone28(c) ==
    analyze(rules, is_loaded, hashseed, calls[c].text, calls[c].use_synonyms,
            calls[c].min_matches)

\* every call that has returned has the result it has when it runs alone
ReturnsAsAlone == \A c \in Callers : calls[c].pc = "done" => calls[c].result = Alone28(c)

\* C28: analyze never modifies the rule store or the is_loaded flag, so for
\* any interleaving of concurrent analyze calls on one loaded engine each
\* call returns the result it would return if it ran alone.
C28_ConcurrentCallsAsAlone ==
    /\ []ReturnsAsAlone
    /\ [][AnalyzeStep => (rules' = rules /\ is_loaded' = is_loaded)]_vars

\* two calls with different arguments on a loaded store of two categories
\* have both returned, with different non-empty results
C28_Witness ==
    /\ is_loaded
    /\ Len(rules) = 2
    /\ \A c \in Callers : calls[c].pc = "done" /\ calls[c].result # <<>>
    /\ calls[1].text # calls[2].text
    /\ calls[1].result # calls[2].result

(***************************************************************************)
(* Claims about the patterns of a rule                                     *)
(***************************************************************************)
\* the match the statement gives a pattern p on the normalized text t: with
\* a single '*', the part before it, any run of characters, the part after
\* it, between word boundaries; without one, p between word boundaries
ClaimedMatch(p, t) ==
    LET stars  == {i \in DOMAIN p : p[i] = "*"}
        star   == MinOf(stars)
        prefix == lower(SubSeq(p, 1, star - 1))
        suffix == lower(SubSeq(p, star + 1, Len(p)))
    IN  IF Cardinality(stars) = 1
        THEN \E i, j \in 1..(Len(t) + 1) :
                 /\ Boundary(t, i) /\ HasAt(t, i, prefix)
                 /\ j >= i + Len(prefix)
                 /\ HasAt(t, j, suffix) /\ Boundary(t, j + Len(suffix))
        ELSE SearchWord(t, lower(p))

\* C26 as stated: a rule pattern with a single '*' wildcard matches the
\* normalized text exactly when the text contains its prefix, then any run
\* of characters, then its suffix, delimited by word boundaries; a pattern
\* without a wildcard matches exactly when it occurs in the text delimited
\* by word boundaries.
C26_WildcardsAndBoundaries ==
    Analyzed =>
        \A k \in DOMAIN Results :
            "patterns" \in RuleOfEntry(Results[k]).keys =>
                \A i \in DOMAIN RuleOfEntry(Results[k]).patterns :
                    InList(RuleOfEntry(Results[k]).patterns[i], Results[k].details.patterns)
                        <=> ClaimedMatch(RuleOfEntry(Results[k]).patterns[i],
                                         normalize_text(last.text))

(***************************************************************************)
(* Claims about the category labels                                        *)
(***************************************************************************)
\* SDG_LABELS of src/app.py
SDG_LABELS_app ==
    << "No Poverty", "Zero Hunger", "Good Health and Well-being",
       "Quality Education", "Gender Equality", "Clean Water and Sanitation",
       "Affordable and Clean Energy", "Decent Work and Economic Growth",
       "Industry, Innovation and Infrastructure", "Reduced Inequality",
       "Sustainable Cities and Communities",
       "Responsible Consumption and Production", "Climate Action",
       "Life Below Water", "Life on Land",
       "Peace, Justice and Strong Institutions", "Partnerships for the Goals" >>

\* SDG_LABELS of src/model_loader.py
SDG_LABELS_model_loader ==
    << "No Poverty", "Zero Hunger", "Good Health and Well-being",
       "Quality Education", "Gender Equality", "Clean Water and Sanitation",
       "Affordable and Clean Energy", "Decent Work and Economic Growth",
       "Industry, Innovation and Infrastructure", "Reduced Inequality",
       "Sustainable Cities and Communities",
       "Responsible Consumption and Production", "Climate Action",
       "Life Below Water", "Life on Land",
       "Peace, Justice and Strong Institutions", "Partnerships for the Goals" >>

\* the three modules hold one list of 17 labels, and every category number
\* in the store or in a result of analyze is in 1..17
NumbersAndListsAgree ==
    /\ Len(SDG_LABELS) = 17
    /\ SDG_LABELS = SDG_LABELS_app
    /\ SDG_LABELS = SDG_LABELS_model_loader
    /\ DictKeys(rules) \subseteq 1..17
    /\ Analyzed => \A k \in DOMAIN Results : Results[k].sdg.num \in 1..17

\* C20 as stated: category numbers are in 1..17 and the label reported for
\* category n is always the n-th entry of the label list, which is the same
\* list in rule_engine, app and model_loader.
C20_AsClaimed ==
    /\ NumbersAndListsAgree
    /\ Analyzed => \A k \in DOMAIN Results :
                       Results[k].sdg.label = SDG_LABELS[Results[k].sdg.num]

\* C20: category numbers are in 1..17 and the three modules hold the same
\* list; the label reported for category n is the title of the category's
\* rule file when the file gives one, and the n-th entry of the list only
\* when it gives none.
C20_LabelIsTitleOrListEntry ==
    /\ NumbersAndListsAgree
    /\ Analyzed => \A k \in DOMAIN Results :
           Results[k].sdg.label =
               IF "title" \in RuleOfEntry(Results[k]).keys
               THEN RuleOfEntry(Results[k]).title
               ELSE SDG_LABELS[Results[k].sdg.num]

\* one result carries the title of its rule file, another the list's label
C20_Witness ==
    /\ Analyzed
    /\ \E k \in DOMAIN Results :
           /\ "title" \in RuleOfEntry(Results[k]).keys
           /\ Results[k].sdg.label = RuleOfEntry(Results[k]).title
           /\ Results[k].sdg.label # SDG_LABELS[Results[k].sdg.num]
    /\ \E k \in DOMAIN Results :
           /\ "title" \notin RuleOfEntry(Results[k]).keys
           /\ Results[k].sdg.label = SDG_LABELS[Results[k].sdg.num]

====
